---- MODULE Spec2Model ----
(***************************************************************************)
(* State-machine model of the chat component of Kaveh-AI                   *)
(* (src/src/components/chat-interface.tsx): the session store, the model   *)
(* registry, the send/resolve round trip and the cost estimator.           *)
(*                                                                         *)
(* Conventions.                                                            *)
(*  - A string is a sequence of tokens (one token = one or more            *)
(*    characters); length-sensitive strings (user text, responses, names)  *)
(*    use one-character tokens, so Len is String.length.                   *)
(*  - Money is counted in micro-dollars (1 = $0.000001), which makes every *)
(*    rate of calculateCost an integer.                                    *)
(*  - null is 0 for ids (ids start at 1).                                  *)
(*  - A handler is an operator from a snapshot of the component state to   *)
(*    the snapshot after the handler's state updates have been applied;    *)
(*    an action applies a handler, then the effects React runs after the   *)
(*    render, and commits the result.                                      *)
(*  - Storage writes succeed in the specifications of this module.         *)
(***************************************************************************)
EXTENDS Integers, Sequences, FiniteSets, TLC

\* ------------------------------------------------------------------ bounds
MaxSessionIds == 3
MaxMessageIds == 6
MaxClock == 2
MaxFetchIds == 2
ExtraModels == 2

\* --------------------------------------------------------------- constants
DEFAULT_SESSION_NAME == <<"N", "e", "w", " ", "C", "h", "a", "t">>
MAX_SESSION_NAME_LENGTH == 50
SESSION_NAME_TRUNCATE_LENGTH == 30
MAX_SELECTABLE_OPENROUTER_MODELS == 20

GOOGLE_PREFIX == <<"googleai/">>
OPENROUTER_PREFIX == <<"openrouter/">>
GEMINI_FLASH_ID == <<"googleai/", "gemini-2.0-flash">>

DEFAULT_GOOGLE_MODELS == << [id |-> GEMINI_FLASH_ID, provider |-> "google"] >>

\* micro-dollars per character
COST_PER_INPUT_CHAR_DEFAULT == 5
COST_PER_OUTPUT_CHAR_DEFAULT == 15
COST_PER_FILE_ANALYSIS_GOOGLE == 10000
COST_PER_FILE_OPENROUTER == 5000

null == 0

\* ----------------------------------------------------------- string helpers
\* String.prototype.startsWith
StartsWith(s, pat) ==
    /\ Len(pat) <= Len(s)
    /\ SubSeq(s, 1, Len(pat)) = pat

\* String.prototype.includes
Includes(s, pat) ==
    \E i \in 1..(Len(s) - Len(pat) + 1) : SubSeq(s, i, i + Len(pat) - 1) = pat

\* String.prototype.substring(0, n)
Substring0(s, n) == SubSeq(s, 1, IF n < Len(s) THEN n ELSE Len(s))

\* String.prototype.trim, for strings whose only white space is " "
RECURSIVE TrimLeft(_)
TrimLeft(s) == IF s # <<>> /\ Head(s) = " " THEN TrimLeft(Tail(s)) ELSE s

RECURSIVE TrimRight(_)
TrimRight(s) ==
    IF s # <<>> /\ s[Len(s)] = " " THEN TrimRight(SubSeq(s, 1, Len(s) - 1)) ELSE s

Trim(s) == TrimRight(TrimLeft(s))

\* Array.prototype.filter with a predicate given as the set of kept values
RECURSIVE FilterSeq(_, _)
FilterSeq(s, keep) ==
    IF s = <<>> THEN <<>>
    ELSE IF Head(s) \in keep THEN <<Head(s)>> \o FilterSeq(Tail(s), keep)
         ELSE FilterSeq(Tail(s), keep)

\* slice that keeps the whole array
SliceAll(s, n) == s

\* Array.prototype.slice(0, n)
Slice0(s, n) == SubSeq(s, 1, IF n < Len(s) THEN n ELSE Len(s))

Range(s) == { s[i] : i \in 1..Len(s) }

\* ------------------------------------------------------------ cost estimator
\* calculateCost that adds the file charge of the provider to every message
calculateCostFileAlways(modelId, inputLength, outputLength, hasFile) ==
    LET tier ==
            IF \/ Includes(modelId, <<"gpt-4">>)
               \/ Includes(modelId, <<"claude-3-opus">>)
               \/ Includes(modelId, <<"gemini-1.5-pro">>)
            THEN <<15, 45>>
            ELSE IF \/ Includes(modelId, <<"claude-3-sonnet">>)
                    \/ Includes(modelId, <<"gpt-4", "o">>)
                    \/ Includes(modelId, <<"gemini-1.5-flash">>)
            THEN <<5, 15>>
            ELSE IF StartsWith(modelId, GEMINI_FLASH_ID)
            THEN <<1, 2>>
            ELSE IF StartsWith(modelId, OPENROUTER_PREFIX)
            THEN <<2, 6>>
            ELSE <<COST_PER_INPUT_CHAR_DEFAULT, COST_PER_OUTPUT_CHAR_DEFAULT>>
        fileCost ==
            IF StartsWith(modelId, GOOGLE_PREFIX)
            THEN COST_PER_FILE_ANALYSIS_GOOGLE
            ELSE IF StartsWith(modelId, OPENROUTER_PREFIX)
            THEN COST_PER_FILE_OPENROUTER
            ELSE 0
    IN  (inputLength * tier[1]) + (outputLength * tier[2]) + fileCost

calculateCost(modelId, inputLength, outputLength, hasFile) ==
    LET tier ==
            IF \/ Includes(modelId, <<"gpt-4">>)
               \/ Includes(modelId, <<"claude-3-opus">>)
               \/ Includes(modelId, <<"gemini-1.5-pro">>)
            THEN <<15, 45>>
            ELSE IF \/ Includes(modelId, <<"claude-3-sonnet">>)
                    \/ Includes(modelId, <<"gpt-4", "o">>)
                    \/ Includes(modelId, <<"gemini-1.5-flash">>)
            THEN <<5, 15>>
            ELSE IF StartsWith(modelId, GEMINI_FLASH_ID)
            THEN <<1, 2>>
            ELSE IF StartsWith(modelId, OPENROUTER_PREFIX)
            THEN <<2, 6>>
            ELSE <<COST_PER_INPUT_CHAR_DEFAULT, COST_PER_OUTPUT_CHAR_DEFAULT>>
        fileCost ==
            IF hasFile /\ StartsWith(modelId, GOOGLE_PREFIX)
            THEN COST_PER_FILE_ANALYSIS_GOOGLE
            ELSE IF hasFile /\ StartsWith(modelId, OPENROUTER_PREFIX)
            THEN COST_PER_FILE_OPENROUTER
            ELSE 0
    IN  (inputLength * tier[1]) + (outputLength * tier[2]) + fileCost

\* ------------------------------------------------------------------- state
VARIABLES
    chatSessions,                \* ChatSession[]
    activeSessionId,             \* id or null
    thinkingMessageId,           \* id or null
    isSending,
    input,                       \* draft text
    selectedFile,                \* TRUE iff a file is attached
    activeTab,
    openRouterApiKey,
    allOpenRouterModels,         \* the catalog: array of raw model ids
    selectedOpenRouterModelIds,  \* Set<string>, in insertion order
    activeModels,                \* AIModelInfo[]
    selectedModel,               \* AIModelInfo
    isFetchingModels,
    fetchModelsError,
    filterTerm,
    localStorage,                \* the four keys the component reads back
    pendingSends,                \* handleSend invocations suspended at the await
    pendingFetches,              \* fetchOpenRouterModels invocations suspended at the await
    mounted,                     \* FALSE before the mount effects have run
    now,                         \* Date.now()
    nextSessionId,               \* stands for the fresh session_<time>_<random> ids
    nextMessageId,               \* stands for the fresh msg_<time>_<random> ids
    nextFetchId,
    last                         \* history: the last operation, its argument, and
                                 \* the active session and selected model before it

vars == << chatSessions, activeSessionId, thinkingMessageId, isSending, input,
           selectedFile, activeTab, openRouterApiKey, allOpenRouterModels,
           selectedOpenRouterModelIds, activeModels, selectedModel,
           isFetchingModels, fetchModelsError, filterTerm, localStorage,
           pendingSends, pendingFetches, mounted, now, nextSessionId,
           nextMessageId, nextFetchId, last >>

\* process.env.NEXT_PUBLIC_OPENROUTER_API_KEY: not set in this deployment
NEXT_PUBLIC_OPENROUTER_API_KEY == ""

EmptyStorage ==
    [ chat_sessions |-> <<>>,
      active_chat_session_id |-> null,
      openrouter_api_key |-> "",
      selected_openrouter_models |-> <<>> ]

\* The component state of the first render (the useState initial values).
InitialState(storage, clock, sid, mid, fid) ==
    [ chatSessions |-> <<>>,
      activeSessionId |-> null,
      thinkingMessageId |-> null,
      isSending |-> FALSE,
      input |-> <<>>,
      selectedFile |-> FALSE,
      activeTab |-> "chat",
      openRouterApiKey |-> "",
      allOpenRouterModels |-> <<>>,
      selectedOpenRouterModelIds |-> <<>>,
      activeModels |-> DEFAULT_GOOGLE_MODELS,
      selectedModel |-> DEFAULT_GOOGLE_MODELS[1],
      isFetchingModels |-> FALSE,
      fetchModelsError |-> <<>>,
      filterTerm |-> "",
      localStorage |-> storage,
      pendingSends |-> <<>>,
      pendingFetches |-> {},
      mounted |-> FALSE,
      now |-> clock,
      nextSessionId |-> sid,
      nextMessageId |-> mid,
      nextFetchId |-> fid,
      modelsDirty |-> FALSE ]

\* The current state as one record. modelsDirty is not state: within one
\* operation it records that selectedOpenRouterModelIds or allOpenRouterModels
\* was set to a new object, which is what re-runs Effect 2.
Cur ==
    [ chatSessions |-> chatSessions,
      activeSessionId |-> activeSessionId,
      thinkingMessageId |-> thinkingMessageId,
      isSending |-> isSending,
      input |-> input,
      selectedFile |-> selectedFile,
      activeTab |-> activeTab,
      openRouterApiKey |-> openRouterApiKey,
      allOpenRouterModels |-> allOpenRouterModels,
      selectedOpenRouterModelIds |-> selectedOpenRouterModelIds,
      activeModels |-> activeModels,
      selectedModel |-> selectedModel,
      isFetchingModels |-> isFetchingModels,
      fetchModelsError |-> fetchModelsError,
      filterTerm |-> filterTerm,
      localStorage |-> localStorage,
      pendingSends |-> pendingSends,
      pendingFetches |-> pendingFetches,
      mounted |-> mounted,
      now |-> now,
      nextSessionId |-> nextSessionId,
      nextMessageId |-> nextMessageId,
      nextFetchId |-> nextFetchId,
      modelsDirty |-> FALSE ]

\* What the history variable keeps of the state before the operation.
PrevOf(s) ==
    [ activeSessionId |-> s.activeSessionId,
      selectedModel |-> s.selectedModel.id,
      sessionCount |-> Len(s.chatSessions) ]

Prev ==
    [ activeSessionId |-> activeSessionId,
      selectedModel |-> selectedModel.id,
      sessionCount |-> Len(chatSessions) ]

\* The snapshot is evaluated once and then assigned field by field.
Commit(s, op, arg) ==
    \E t \in {s} :
        /\ chatSessions' = t.chatSessions
        /\ activeSessionId' = t.activeSessionId
        /\ thinkingMessageId' = t.thinkingMessageId
        /\ isSending' = t.isSending
        /\ input' = t.input
        /\ selectedFile' = t.selectedFile
        /\ activeTab' = t.activeTab
        /\ openRouterApiKey' = t.openRouterApiKey
        /\ allOpenRouterModels' = t.allOpenRouterModels
        /\ selectedOpenRouterModelIds' = t.selectedOpenRouterModelIds
        /\ activeModels' = t.activeModels
        /\ selectedModel' = t.selectedModel
        /\ isFetchingModels' = t.isFetchingModels
        /\ fetchModelsError' = t.fetchModelsError
        /\ filterTerm' = t.filterTerm
        /\ localStorage' = t.localStorage
        /\ pendingSends' = t.pendingSends
        /\ pendingFetches' = t.pendingFetches
        /\ mounted' = t.mounted
        /\ now' = t.now
        /\ nextSessionId' = t.nextSessionId
        /\ nextMessageId' = t.nextMessageId
        /\ nextFetchId' = t.nextFetchId
        /\ last' = [op |-> op, arg |-> arg, prev |-> Prev]

\* ---------------------------------------------------------- array helpers
\* Array.prototype.filter(x => x.id !== id)
RECURSIVE RemoveId(_, _)
RemoveId(xs, id) ==
    IF xs = <<>> THEN <<>>
    ELSE IF Head(xs).id = id THEN RemoveId(Tail(xs), id)
         ELSE <<Head(xs)>> \o RemoveId(Tail(xs), id)

\* Array.prototype.some(x => x.id === id)
SomeId(xs, id) == \E i \in 1..Len(xs) : xs[i].id = id

\* Array.prototype.find(x => x.id === id), for an id that is there
FindId(xs, id) == xs[CHOOSE i \in 1..Len(xs) : xs[i].id = id /\ \A j \in 1..(i - 1) : xs[j].id # id]

\* ------------------------------------------------------- local storage
\* saveToLocalStorage(CHAT_SESSIONS_STORAGE_KEY, sessions): JSON.stringify keeps
\* every field the model has (absent fields are modelled by their empty value).
saveSessions(s, sessions) ==
    [s EXCEPT !.localStorage.chat_sessions = sessions]

\* Effect 1, "Load Sessions": the stored array with the falsy fields defaulted.
\* a loader that knows nothing of the tags field
loadSessionsWithoutTags(stored, clock) ==
    [ i \in 1..Len(stored) |->
        [ stored[i] EXCEPT
            !.createdAt = IF @ = 0 THEN clock ELSE @,
            !.lastModified = IF @ = 0 THEN clock ELSE @,
            !.name = IF @ = <<>> THEN DEFAULT_SESSION_NAME ELSE @,
            !.tags = <<>> ] ]

loadSessions(stored, clock) ==
    [ i \in 1..Len(stored) |->
        [ stored[i] EXCEPT
            !.createdAt = IF @ = 0 THEN clock ELSE @,
            !.lastModified = IF @ = 0 THEN clock ELSE @,
            !.name = IF @ = <<>> THEN DEFAULT_SESSION_NAME ELSE @ ] ]

\* ------------------------------------------------------- session store
NewSession(id, clock) ==
    [ id |-> id,
      name |-> DEFAULT_SESSION_NAME,
      messages |-> <<>>,
      createdAt |-> clock,
      lastModified |-> clock,
      totalCost |-> 0,
      modelId |-> <<>>,
      folderId |-> null,
      isBookmarked |-> FALSE,
      tags |-> <<>> ]

\* createNewSession that adds the session and leaves the active pointer
createNewSessionKeepsActive(s) ==
    LET newSession == NewSession(s.nextSessionId, s.now)
        updatedSessions == <<newSession>> \o s.chatSessions
    IN  [ saveSessions(s, updatedSessions) EXCEPT
            !.chatSessions = updatedSessions,
            !.input = <<>>,
            !.selectedFile = FALSE,
            !.thinkingMessageId = null,
            !.activeTab = "chat",
            !.nextSessionId = @ + 1 ]

createNewSession(s) ==
    LET newSession == NewSession(s.nextSessionId, s.now)
        updatedSessions == <<newSession>> \o s.chatSessions
    IN  [ saveSessions(s, updatedSessions) EXCEPT
            !.chatSessions = updatedSessions,
            !.activeSessionId = newSession.id,
            !.localStorage.active_chat_session_id = newSession.id,
            !.input = <<>>,
            !.selectedFile = FALSE,
            !.thinkingMessageId = null,
            !.activeTab = "chat",
            !.nextSessionId = @ + 1 ]

\* switchSession without the existence check
switchSessionUnchecked(s, sessionId) ==
    IF sessionId = s.activeSessionId THEN s
    ELSE [ s EXCEPT
            !.activeSessionId = sessionId,
            !.localStorage.active_chat_session_id = sessionId,
            !.input = <<>>,
            !.selectedFile = FALSE,
            !.thinkingMessageId = null,
            !.activeTab = "chat" ]

\* switchSession that answers an unknown id by activating the first session
switchSessionFallsBack(s, sessionId) ==
    IF sessionId = s.activeSessionId THEN s
    ELSE LET target == IF SomeId(s.chatSessions, sessionId) \/ s.chatSessions = <<>>
                       THEN sessionId
                       ELSE s.chatSessions[1].id
         IN  [ s EXCEPT
                !.activeSessionId = target,
                !.localStorage.active_chat_session_id = target,
                !.input = <<>>,
                !.selectedFile = FALSE,
                !.thinkingMessageId = null,
                !.activeTab = "chat" ]

switchSession(s, sessionId) ==
    IF sessionId = s.activeSessionId THEN s
    ELSE IF SomeId(s.chatSessions, sessionId)
    THEN [ s EXCEPT
            !.activeSessionId = sessionId,
            !.localStorage.active_chat_session_id = sessionId,
            !.input = <<>>,
            !.selectedFile = FALSE,
            !.thinkingMessageId = null,
            !.activeTab = "chat" ]
    ELSE LET currentActive == s.localStorage.active_chat_session_id
         IN  IF currentActive = null \/ ~SomeId(s.chatSessions, currentActive)
             THEN createNewSession(s)
             ELSE s

\* deleteSession that leaves the active pointer alone
deleteSessionNoFailover(s, sessionIdToDelete) ==
    LET updatedSessions == RemoveId(s.chatSessions, sessionIdToDelete)
    IN  [ saveSessions(s, updatedSessions) EXCEPT !.chatSessions = updatedSessions ]

\* deleteSession that falls over to the last remaining session
deleteSessionToLast(s, sessionIdToDelete) ==
    LET updatedSessions == RemoveId(s.chatSessions, sessionIdToDelete)
        removed == [ saveSessions(s, updatedSessions) EXCEPT
                        !.chatSessions = updatedSessions ]
    IN  IF s.activeSessionId # sessionIdToDelete THEN removed
        ELSE IF Len(updatedSessions) > 0
        THEN [ removed EXCEPT
                !.activeSessionId = updatedSessions[Len(updatedSessions)].id,
                !.localStorage.active_chat_session_id = updatedSessions[Len(updatedSessions)].id ]
        ELSE createNewSession(
                [ removed EXCEPT
                    !.activeSessionId = null,
                    !.localStorage.active_chat_session_id = null ])

deleteSession(s, sessionIdToDelete) ==
    LET updatedSessions == RemoveId(s.chatSessions, sessionIdToDelete)
        removed == [ saveSessions(s, updatedSessions) EXCEPT
                        !.chatSessions = updatedSessions ]
    IN  IF s.activeSessionId # sessionIdToDelete THEN removed
        ELSE IF Len(updatedSessions) > 0
        THEN [ removed EXCEPT
                !.activeSessionId = updatedSessions[1].id,
                !.localStorage.active_chat_session_id = updatedSessions[1].id ]
        ELSE createNewSession(
                [ removed EXCEPT
                    !.activeSessionId = null,
                    !.localStorage.active_chat_session_id = null ])

\* Effect 1.5: ensure an active session exists
Effect15(s) ==
    IF s.activeSessionId = null /\ Len(s.chatSessions) > 0
    THEN [ s EXCEPT
            !.activeSessionId = s.chatSessions[1].id,
            !.localStorage.active_chat_session_id = s.chatSessions[1].id ]
    ELSE IF s.activeSessionId = null /\ Len(s.chatSessions) = 0 /\ s.activeTab # "settings"
    THEN createNewSession(s)
    ELSE s

\* ------------------------------------------------------- model registry
\* calculateActiveModels without the limit
calculateActiveModelsUnlimited(selectedIds, allFetchedModels) ==
    LET chosen == FilterSeq(allFetchedModels, Range(selectedIds))
    IN  DEFAULT_GOOGLE_MODELS \o
        [ i \in 1..Len(chosen) |->
            [id |-> OPENROUTER_PREFIX \o chosen[i], provider |-> "openrouter"] ]

calculateActiveModels(selectedIds, allFetchedModels) ==
    LET chosen == FilterSeq(allFetchedModels, Range(selectedIds))
        selectedOpenRouterModels ==
            [ i \in 1..Len(chosen) |->
                [id |-> OPENROUTER_PREFIX \o chosen[i], provider |-> "openrouter"] ]
        limitedOpenRouterModels ==
            Slice0(selectedOpenRouterModels, MAX_SELECTABLE_OPENROUTER_MODELS)
    IN  DEFAULT_GOOGLE_MODELS \o limitedOpenRouterModels

FETCH_ERROR_NO_KEY == <<"API Key is required to fetch models.">>

\* `Error: ${message}`
FETCH_ERROR_FAILED(message) == <<"Error: ">> \o message

\* fetchOpenRouterModels up to its await
fetchOpenRouterModels(s, apiKey) ==
    IF apiKey = ""
    THEN [ s EXCEPT
            !.allOpenRouterModels = <<>>,
            !.modelsDirty = TRUE,
            !.fetchModelsError = FETCH_ERROR_NO_KEY,
            !.activeModels = DEFAULT_GOOGLE_MODELS ]
    ELSE [ s EXCEPT
            !.isFetchingModels = TRUE,
            !.fetchModelsError = <<>>,
            !.pendingFetches = @ \cup {[id |-> s.nextFetchId, apiKey |-> apiKey]},
            !.nextFetchId = @ + 1 ]

\* a refresh that replaces the catalog and leaves the selection as it was
fetchSucceededKeepsSelection(s, f, fetchedModels) ==
    [ s EXCEPT
        !.allOpenRouterModels = fetchedModels,
        !.modelsDirty = TRUE,
        !.activeModels = calculateActiveModels(s.selectedOpenRouterModelIds, fetchedModels),
        !.isFetchingModels = FALSE,
        !.pendingFetches = @ \ {f} ]

\* a refresh that reconciles the selection in memory only
fetchSucceededUnsaved(s, f, fetchedModels) ==
    LET validSelectedIds == FilterSeq(fetchedModels, Range(s.selectedOpenRouterModelIds))
        limitedValidSelectedIds == Slice0(validSelectedIds, MAX_SELECTABLE_OPENROUTER_MODELS)
    IN  [ s EXCEPT
            !.allOpenRouterModels = fetchedModels,
            !.selectedOpenRouterModelIds = limitedValidSelectedIds,
            !.modelsDirty = TRUE,
            !.activeModels = calculateActiveModels(limitedValidSelectedIds, fetchedModels),
            !.isFetchingModels = FALSE,
            !.pendingFetches = @ \ {f} ]

\* fetchOpenRouterModels after the await, response ok with a model array
fetchSucceeded(s, f, fetchedModels) ==
    LET validSelectedIds == FilterSeq(fetchedModels, Range(s.selectedOpenRouterModelIds))
        limitedValidSelectedIds == Slice0(validSelectedIds, MAX_SELECTABLE_OPENROUTER_MODELS)
    IN  [ s EXCEPT
            !.allOpenRouterModels = fetchedModels,
            !.selectedOpenRouterModelIds = limitedValidSelectedIds,
            !.modelsDirty = TRUE,
            !.activeModels = calculateActiveModels(limitedValidSelectedIds, fetchedModels),
            !.localStorage.selected_openrouter_models = limitedValidSelectedIds,
            !.isFetchingModels = FALSE,
            !.pendingFetches = @ \ {f} ]

\* a catch branch that shows the message of the error as it is
fetchFailedShowsMessage(s, f, message) ==
    [ s EXCEPT
        !.fetchModelsError = message,
        !.allOpenRouterModels = <<>>,
        !.modelsDirty = TRUE,
        !.activeModels = DEFAULT_GOOGLE_MODELS,
        !.isFetchingModels = FALSE,
        !.pendingFetches = @ \ {f} ]

\* fetchOpenRouterModels after the await, the catch branch
fetchFailed(s, f, message) ==
    [ s EXCEPT
        !.fetchModelsError = FETCH_ERROR_FAILED(message),
        !.allOpenRouterModels = <<>>,
        !.modelsDirty = TRUE,
        !.activeModels = DEFAULT_GOOGLE_MODELS,
        !.isFetchingModels = FALSE,
        !.pendingFetches = @ \ {f} ]

\* Effect 2: recompute activeModels when the selection or the catalog changed
Effect2(s) ==
    IF ~s.modelsDirty THEN s
    ELSE LET limitedSelection ==
                Slice0(s.selectedOpenRouterModelIds, MAX_SELECTABLE_OPENROUTER_MODELS)
         IN  [ s EXCEPT
                !.selectedOpenRouterModelIds = limitedSelection,
                !.activeModels = calculateActiveModels(limitedSelection, s.allOpenRouterModels),
                !.modelsDirty = FALSE ]

\* Effect 3 that never resets
Effect3Skipped(s) == s

\* Effect 3: reset selectedModel when it is no longer in activeModels
Effect3(s) ==
    IF SomeId(s.activeModels, s.selectedModel.id) THEN s
    ELSE IF SomeId(s.activeModels, DEFAULT_GOOGLE_MODELS[1].id)
    THEN [s EXCEPT !.selectedModel = FindId(s.activeModels, DEFAULT_GOOGLE_MODELS[1].id)]
    ELSE IF Len(s.activeModels) > 0
    THEN [s EXCEPT !.selectedModel = s.activeModels[1]]
    ELSE s

\* The effects that React runs after the render that follows an operation.
Effects(s) == Effect3(Effect2(Effect15(s)))

\* ------------------------------------------------------------------ mount
\* Effect 1: load the initial data from localStorage
Effect1(s) ==
    LET loadedSessions == loadSessions(s.localStorage.chat_sessions, s.now)
        storedApiKey == s.localStorage.openrouter_api_key
        initialSelectedIds ==
            Slice0(s.localStorage.selected_openrouter_models, MAX_SELECTABLE_OPENROUTER_MODELS)
        s1 == [ s EXCEPT
                  !.chatSessions = loadedSessions,
                  !.openRouterApiKey = storedApiKey,
                  !.selectedOpenRouterModelIds = initialSelectedIds,
                  !.modelsDirty = TRUE ]
        s2 == IF storedApiKey # ""
              THEN fetchOpenRouterModels(s1, storedApiKey)
              ELSE [s1 EXCEPT !.activeModels = calculateActiveModels(initialSelectedIds, <<>>)]
        storedActiveId == s.localStorage.active_chat_session_id
    IN  IF storedActiveId # null /\ SomeId(loadedSessions, storedActiveId)
        THEN [s2 EXCEPT !.activeSessionId = storedActiveId]
        ELSE IF Len(loadedSessions) > 0
        THEN [ s2 EXCEPT
                !.activeSessionId = loadedSessions[1].id,
                !.localStorage.active_chat_session_id = loadedSessions[1].id ]
        ELSE createNewSession(s2)

\* Effect 1.5 as it runs after the first render: its closure holds the first
\* render's activeSessionId (null), chatSessions ([]) and activeTab ("chat"),
\* whatever Effect 1 has just queued, so its second branch is taken.
Effect15OnMount(s) == createNewSession(s)

\* Effect 2 as it runs after the first render, with the first render's empty
\* selection and catalog.
Effect2OnMount(s) ==
    [s EXCEPT !.activeModels = calculateActiveModels(<<>>, <<>>)]

MountEffects(s) ==
    [ Effects(Effect2OnMount(Effect15OnMount(Effect1(s)))) EXCEPT !.mounted = TRUE ]

\* the completed AI responses listed by the usage analysis
RECURSIVE allAiMessages(_, _)
allAiMessages(sessions, thinkingId) ==
    IF sessions = <<>> THEN <<>>
    ELSE SelectSeq(Head(sessions).messages,
                   LAMBDA m : m.sender = "ai" /\ ~m.isError /\ m.id # thinkingId)
         \o allAiMessages(Tail(sessions), thinkingId)

\* ---------------------------------------------------------- send / resolve
generateSessionName(firstMessageText) ==
    IF firstMessageText = <<>> THEN DEFAULT_SESSION_NAME
    ELSE LET name == Substring0(firstMessageText, SESSION_NAME_TRUNCATE_LENGTH)
         IN  IF Len(name) = SESSION_NAME_TRUNCATE_LENGTH
             THEN name \o <<".", ".", ".">>
             ELSE name

THINKING_TEXT == <<"Thinking...">>

Message(id, sender, text) ==
    [ id |-> id,
      sender |-> sender,
      text |-> text,
      hasFile |-> FALSE,
      hasCost |-> FALSE,
      cost |-> 0,
      modelId |-> <<>>,
      isError |-> FALSE,
      thinkingSteps |-> <<>> ]

\* updateThinkingSteps, called from a closure that holds these two ids
updateThinkingSteps(s, closureActiveSessionId, closureThinkingMessageId, steps) ==
    IF closureActiveSessionId = null \/ closureThinkingMessageId = null THEN s
    ELSE LET upd(session) ==
                [ session EXCEPT !.messages =
                    [ i \in 1..Len(@) |->
                        IF @[i].id = closureThinkingMessageId
                        THEN [@[i] EXCEPT !.thinkingSteps = steps]
                        ELSE @[i] ] ]
         IN  [s EXCEPT !.chatSessions =
                [ i \in 1..Len(@) |->
                    IF @[i].id = closureActiveSessionId THEN upd(@[i]) ELSE @[i] ]]

\* The early returns of handleSend
\* saveEditedSessionName without the write to storage
saveEditedSessionNameUnsaved(s, sessionId, editingSessionName) ==
    LET trimmedName == Trim(editingSessionName)
    IN  IF trimmedName = <<>> \/ Len(trimmedName) > MAX_SESSION_NAME_LENGTH THEN s
        ELSE [s EXCEPT !.chatSessions =
                [ i \in 1..Len(@) |->
                    IF @[i].id = sessionId
                    THEN [@[i] EXCEPT !.name = trimmedName, !.lastModified = s.now]
                    ELSE @[i] ]]

saveEditedSessionName(s, sessionId, editingSessionName) ==
    LET trimmedName == Trim(editingSessionName)
        updatedSessions ==
            [ i \in 1..Len(s.chatSessions) |->
                IF s.chatSessions[i].id = sessionId
                THEN [s.chatSessions[i] EXCEPT !.name = trimmedName, !.lastModified = s.now]
                ELSE s.chatSessions[i] ]
    IN  IF trimmedName = <<>> THEN s
        ELSE IF Len(trimmedName) > MAX_SESSION_NAME_LENGTH THEN s
        ELSE [saveSessions(s, updatedSessions) EXCEPT !.chatSessions = updatedSessions]

toggleBookmark(s, sessionId) ==
    LET updatedSessions ==
            [ i \in 1..Len(s.chatSessions) |->
                IF s.chatSessions[i].id = sessionId
                THEN [s.chatSessions[i] EXCEPT !.isBookmarked = ~@, !.lastModified = s.now]
                ELSE s.chatSessions[i] ]
    IN  [saveSessions(s, updatedSessions) EXCEPT !.chatSessions = updatedSessions]

handleMoveSessionToFolder(s, sessionToMove, folderId) ==
    LET updatedSessions ==
            [ i \in 1..Len(s.chatSessions) |->
                IF s.chatSessions[i].id = sessionToMove
                THEN [s.chatSessions[i] EXCEPT !.folderId = folderId, !.lastModified = s.now]
                ELSE s.chatSessions[i] ]
    IN  IF sessionToMove = null THEN s
        ELSE [saveSessions(s, updatedSessions) EXCEPT !.chatSessions = updatedSessions]

handleSaveTags(s, editingTagsSessionId, editingTags) ==
    LET updatedSessions ==
            [ i \in 1..Len(s.chatSessions) |->
                IF s.chatSessions[i].id = editingTagsSessionId
                THEN [s.chatSessions[i] EXCEPT !.tags = editingTags, !.lastModified = s.now]
                ELSE s.chatSessions[i] ]
    IN  IF editingTagsSessionId = null THEN s
        ELSE [saveSessions(s, updatedSessions) EXCEPT !.chatSessions = updatedSessions]

\* ------------------------------------------- storage writes that throw
\* The handlers below are the handlers above on the path where every
\* localStorage.setItem throws (quota exceeded, storage disabled).
\* saveToLocalStorage catches the exception; the bare setItem calls do not,
\* so the statements after them in the handler do not run. State updates
\* queued before the throw are applied.

\* the component after an exception in a state updater: the tree is unmounted
Unmounted(s) ==
    InitialState(s.localStorage, s.now, s.nextSessionId, s.nextMessageId, s.nextFetchId)

createNewSessionStorageThrows(s) ==
    LET newSession == NewSession(s.nextSessionId, s.now)
        updatedSessions == <<newSession>> \o s.chatSessions
    IN  [ s EXCEPT
            !.chatSessions = updatedSessions,
            !.activeSessionId = newSession.id,
            !.nextSessionId = @ + 1 ]

switchSessionStorageThrows(s, sessionId) ==
    IF sessionId = s.activeSessionId THEN s
    ELSE IF SomeId(s.chatSessions, sessionId)
    THEN [s EXCEPT !.activeSessionId = sessionId]
    ELSE LET currentActive == s.localStorage.active_chat_session_id
         IN  IF currentActive = null \/ ~SomeId(s.chatSessions, currentActive)
             THEN createNewSessionStorageThrows(s)
             ELSE s

\* the setItem / removeItem of the active id is inside the state updater
deleteSessionStorageThrows(s, sessionIdToDelete) ==
    IF s.activeSessionId # sessionIdToDelete
    THEN [s EXCEPT !.chatSessions = RemoveId(s.chatSessions, sessionIdToDelete)]
    ELSE Unmounted(s)

saveEditedSessionNameStorageThrows(s, sessionId, editingSessionName) ==
    LET trimmedName == Trim(editingSessionName)
    IN  IF trimmedName = <<>> THEN s
        ELSE IF Len(trimmedName) > MAX_SESSION_NAME_LENGTH THEN s
        ELSE [s EXCEPT !.chatSessions =
                [ i \in 1..Len(@) |->
                    IF @[i].id = sessionId
                    THEN [@[i] EXCEPT !.name = trimmedName, !.lastModified = s.now]
                    ELSE @[i] ]]

\* the prechecks of handleSend without the one about the attached file
SendAcceptedWithFile(s) ==
    /\ s.activeSessionId # null
    /\ (Trim(s.input) # <<>> \/ s.selectedFile)
    /\ ~( /\ s.selectedModel.provider = "openrouter"
          /\ s.openRouterApiKey = ""
          /\ NEXT_PUBLIC_OPENROUTER_API_KEY = "" )

SendAccepted(s) ==
    /\ s.activeSessionId # null
    /\ (Trim(s.input) # <<>> \/ s.selectedFile)
    /\ ~(s.selectedFile /\ s.selectedModel.provider = "openrouter")
    /\ ~( /\ s.selectedModel.provider = "openrouter"
          /\ s.openRouterApiKey = ""
          /\ NEXT_PUBLIC_OPENROUTER_API_KEY = "" )

\* handleSend up to its await
handleSend(s) ==
    IF ~SendAccepted(s) THEN s
    ELSE
    LET userMessage ==
            [ Message(s.nextMessageId, "user", s.input) EXCEPT !.hasFile = s.selectedFile ]
        thinkingMsgId == s.nextMessageId + 1
        thinkingMessage ==
            [ Message(thinkingMsgId, "ai", THINKING_TEXT) EXCEPT
                !.modelId = s.selectedModel.id,
                !.thinkingSteps =
                    IF s.selectedModel.provider = "openrouter"
                    THEN <<"Preparing request for OpenRouter...">>
                    ELSE <<"Preparing request for Google AI...">> ]
        upd(session) ==
            [ session EXCEPT
                !.messages = @ \o <<userMessage, thinkingMessage>>,
                !.lastModified = s.now,
                !.name = IF session.name = DEFAULT_SESSION_NAME /\ Len(session.messages) = 0
                         THEN generateSessionName(s.input)
                         ELSE @,
                !.modelId = s.selectedModel.id ]
        updatedSessions ==
            [ i \in 1..Len(s.chatSessions) |->
                IF s.chatSessions[i].id = s.activeSessionId THEN upd(s.chatSessions[i]) ELSE s.chatSessions[i] ]
        closure ==
            [ id |-> thinkingMsgId,
              activeSessionId |-> s.activeSessionId,
              thinkingMsgId |-> thinkingMsgId,
              userMessageText |-> s.input,
              hasFile |-> s.selectedFile,
              selectedModel |-> s.selectedModel,
              apiKey |-> IF s.openRouterApiKey # "" THEN s.openRouterApiKey
                         ELSE NEXT_PUBLIC_OPENROUTER_API_KEY,
              thinkingMessageId |-> s.thinkingMessageId ]
        sent == [ saveSessions(s, updatedSessions) EXCEPT
                    !.thinkingMessageId = thinkingMsgId,
                    !.chatSessions = updatedSessions,
                    !.input = <<>>,
                    !.selectedFile = FALSE,
                    !.isSending = TRUE,
                    !.pendingSends = Append(@, closure),
                    !.nextMessageId = @ + 2 ]
    IN  updateThinkingSteps(sent, closure.activeSessionId, closure.thinkingMessageId,
                            <<"Request sent">>)

\* process.env.OPENROUTER_API_KEY of the server
OPENROUTER_API_KEY == ""

UNSUPPORTED_PROVIDER == <<"Unsupported model provider">>
FILE_NOT_SUPPORTED == <<"File input is not supported for OpenRouter models.">>
API_KEY_MISSING == <<"OpenRouter API key is missing.">>

\* a router that hands every unrecognized id to the first-party SDK
smartAssistantPromptingDefaultsToGoogle(modelId, hasFile, apiKey, backend) ==
    IF StartsWith(modelId, OPENROUTER_PREFIX)
    THEN IF hasFile
         THEN [ok |-> FALSE, text |-> FILE_NOT_SUPPORTED, calls |-> <<>>]
         ELSE IF apiKey = "" /\ OPENROUTER_API_KEY = ""
         THEN [ok |-> FALSE, text |-> API_KEY_MISSING, calls |-> <<>>]
         ELSE [ok |-> backend.ok, text |-> backend.text, calls |-> <<"openrouter">>]
    ELSE [ok |-> backend.ok, text |-> backend.text, calls |-> <<"googleai">>]

\* smartAssistantPrompting: the outcome for this input when the backend that
\* is called answers with `backend` ([ok, text]); calls lists the backends
\* that were called (fetch to the aggregator, ai.generate of the SDK).
smartAssistantPrompting(modelId, hasFile, apiKey, backend) ==
    IF StartsWith(modelId, OPENROUTER_PREFIX)
    THEN IF hasFile
         THEN [ok |-> FALSE, text |-> FILE_NOT_SUPPORTED, calls |-> <<>>]
         ELSE IF apiKey = "" /\ OPENROUTER_API_KEY = ""
         THEN [ok |-> FALSE, text |-> API_KEY_MISSING, calls |-> <<>>]
         ELSE [ok |-> backend.ok, text |-> backend.text, calls |-> <<"openrouter">>]
    ELSE IF StartsWith(modelId, GOOGLE_PREFIX)
    THEN [ok |-> backend.ok, text |-> backend.text, calls |-> <<"googleai">>]
    ELSE [ok |-> FALSE, text |-> UNSUPPORTED_PROVIDER, calls |-> <<>>]

\* AiMessage without the cost
AiMessageNoCost(id, responseText, calculatedCost, modelId) ==
    [ Message(id, "ai", responseText) EXCEPT !.modelId = modelId ]

\* The final message of a successful turn
AiMessage(id, responseText, calculatedCost, modelId) ==
    [ Message(id, "ai", responseText) EXCEPT
        !.hasCost = TRUE,
        !.cost = calculatedCost,
        !.modelId = modelId ]

\* ErrorAiMessage without the error mark
ErrorAiMessageUnmarked(id, errorMessage, modelId) ==
    [ Message(id, "ai", <<"Error: ">> \o errorMessage) EXCEPT
        !.hasCost = TRUE,
        !.cost = 0,
        !.modelId = modelId ]

\* ErrorAiMessage without the cost
ErrorAiMessageNoCost(id, errorMessage, modelId) ==
    [ Message(id, "ai", <<"Error: ">> \o errorMessage) EXCEPT
        !.modelId = modelId,
        !.isError = TRUE ]

\* The final message of a failed turn
ErrorAiMessage(id, errorMessage, modelId) ==
    [ Message(id, "ai", <<"Error: ">> \o errorMessage) EXCEPT
        !.hasCost = TRUE,
        !.cost = 0,
        !.modelId = modelId,
        !.isError = TRUE ]

\* replaceThinking that keeps the placeholder
replaceThinkingKeeps(messages, thinkingMsgId, finalMessage) ==
    messages \o <<finalMessage>>

\* messages.filter(msg => msg.id !== thinkingMsgId).concat(finalMessage)
replaceThinking(messages, thinkingMsgId, finalMessage) ==
    RemoveId(messages, thinkingMsgId) \o <<finalMessage>>

\* sendResolved applying the outcome to whichever session is active when the
\* call returns
sendResolvedToActive(s, c, responseText) ==
    LET calculatedCost ==
            calculateCost(c.selectedModel.id, Len(c.userMessageText), Len(responseText), c.hasFile)
        aiMessage ==
            AiMessage(s.nextMessageId, responseText, calculatedCost, c.selectedModel.id)
        upd(session) ==
            [ session EXCEPT
                !.messages = replaceThinking(@, c.thinkingMsgId, aiMessage),
                !.lastModified = s.now,
                !.totalCost = @ + calculatedCost ]
        updatedSessions ==
            [ i \in 1..Len(s.chatSessions) |->
                IF s.chatSessions[i].id = s.activeSessionId
                THEN upd(s.chatSessions[i]) ELSE s.chatSessions[i] ]
    IN  [ saveSessions(s, updatedSessions) EXCEPT
            !.chatSessions = updatedSessions,
            !.thinkingMessageId = null,
            !.isSending = FALSE,
            !.pendingSends = RemoveId(@, c.id),
            !.nextMessageId = @ + 1 ]

\* handleSend after the await, the call returned `responseText`
sendResolved(s, c, responseText) ==
    LET s0 == updateThinkingSteps(s, c.activeSessionId, c.thinkingMessageId,
                                  <<"Received response, processing...">>)
        calculatedCost ==
            calculateCost(c.selectedModel.id, Len(c.userMessageText), Len(responseText), c.hasFile)
        aiMessage ==
            AiMessage(s.nextMessageId, responseText, calculatedCost, c.selectedModel.id)
        upd(session) ==
            [ session EXCEPT
                !.messages = replaceThinking(@, c.thinkingMsgId, aiMessage),
                !.lastModified = s.now,
                !.totalCost = @ + calculatedCost ]
        updatedSessions ==
            [ i \in 1..Len(s0.chatSessions) |->
                IF s0.chatSessions[i].id = c.activeSessionId THEN upd(s0.chatSessions[i]) ELSE s0.chatSessions[i] ]
    IN  [ saveSessions(s0, updatedSessions) EXCEPT
            !.chatSessions = updatedSessions,
            !.thinkingMessageId = null,
            !.isSending = FALSE,
            !.pendingSends = RemoveId(@, c.id),
            !.nextMessageId = @ + 1 ]

\* sendFailed without the finally block
sendFailedStaysSending(s, c, errorMessage) ==
    LET errorAiMessage ==
            ErrorAiMessage(s.nextMessageId, errorMessage, c.selectedModel.id)
        upd(session) ==
            [ session EXCEPT
                !.messages = replaceThinking(@, c.thinkingMsgId, errorAiMessage),
                !.lastModified = s.now ]
        updatedSessions ==
            [ i \in 1..Len(s.chatSessions) |->
                IF s.chatSessions[i].id = c.activeSessionId
                THEN upd(s.chatSessions[i]) ELSE s.chatSessions[i] ]
    IN  [ saveSessions(s, updatedSessions) EXCEPT
            !.chatSessions = updatedSessions,
            !.thinkingMessageId = null,
            !.pendingSends = RemoveId(@, c.id),
            !.nextMessageId = @ + 1 ]

\* handleSend after the await, the call threw `errorMessage`
sendFailed(s, c, errorMessage) ==
    LET errorAiMessage ==
            ErrorAiMessage(s.nextMessageId, errorMessage, c.selectedModel.id)
        upd(session) ==
            [ session EXCEPT
                !.messages = replaceThinking(@, c.thinkingMsgId, errorAiMessage),
                !.lastModified = s.now ]
        updatedSessions ==
            [ i \in 1..Len(s.chatSessions) |->
                IF s.chatSessions[i].id = c.activeSessionId THEN upd(s.chatSessions[i]) ELSE s.chatSessions[i] ]
    IN  [ saveSessions(s, updatedSessions) EXCEPT
            !.chatSessions = updatedSessions,
            !.thinkingMessageId = null,
            !.isSending = FALSE,
            !.pendingSends = RemoveId(@, c.id),
            !.nextMessageId = @ + 1 ]

\* ------------------------------------------------------- model selection
\* Set.add / Set.delete on an insertion-ordered set
SetAdd(set, x) == IF x \in Range(set) THEN set ELSE Append(set, x)
SetDelete(set, x) == FilterSeq(set, Range(set) \ {x})

handleModelSelectionChange(s, modelId, checked) ==
    IF checked
    THEN IF Len(s.selectedOpenRouterModelIds) < MAX_SELECTABLE_OPENROUTER_MODELS
         THEN [ s EXCEPT
                 !.selectedOpenRouterModelIds = SetAdd(@, modelId),
                 !.modelsDirty = TRUE ]
         ELSE s
    ELSE [ s EXCEPT
            !.selectedOpenRouterModelIds = SetDelete(@, modelId),
            !.modelsDirty = TRUE ]

\* filteredModels: the catalog entries that contain the filter term
filteredModels(s) ==
    IF s.filterTerm = "" THEN s.allOpenRouterModels
    ELSE FilterSeq(s.allOpenRouterModels,
                   { m \in Range(s.allOpenRouterModels) : Includes(m, <<s.filterTerm>>) })

RECURSIVE AddWhileRoom(_, _)
AddWhileRoom(set, models) ==
    IF models = <<>> THEN set
    ELSE IF Len(set) < MAX_SELECTABLE_OPENROUTER_MODELS /\ Head(models) \notin Range(set)
    THEN AddWhileRoom(Append(set, Head(models)), Tail(models))
    ELSE AddWhileRoom(set, Tail(models))

handleSelectAllFilteredModels(s) ==
    [ s EXCEPT
        !.selectedOpenRouterModelIds = AddWhileRoom(@, filteredModels(s)),
        !.modelsDirty = TRUE ]

handleDeselectAllFilteredModels(s) ==
    [ s EXCEPT
        !.selectedOpenRouterModelIds = FilterSeq(@, Range(@) \ Range(filteredModels(s))),
        !.modelsDirty = TRUE ]

handleImportSelectedModels(s) ==
    LET selectedIdsArray ==
            Slice0(s.selectedOpenRouterModelIds, MAX_SELECTABLE_OPENROUTER_MODELS)
    IN  [ s EXCEPT
            !.localStorage.selected_openrouter_models = selectedIdsArray,
            !.activeModels = calculateActiveModels(selectedIdsArray, s.allOpenRouterModels) ]

handleSaveApiKey(s) ==
    fetchOpenRouterModels(
        [s EXCEPT !.localStorage.openrouter_api_key = s.openRouterApiKey],
        s.openRouterApiKey)

handleRefreshModels(s) ==
    IF s.openRouterApiKey = "" THEN s
    ELSE fetchOpenRouterModels(s, s.openRouterApiKey)

\* ------------------------------------------------------------------ inputs
Texts == { <<>>, <<" ">>, <<"h", "i">> }
Responses == { <<>>, <<"o", "k">> }
ErrorMessages == { <<"Server-side error in smart assistant">> }
ApiKeys == { "", "sk-or-1" }
Tabs == { "chat", "settings" }
FilterTerms == { "", "mistralai/" }

GPT4O == <<"openai/", "gpt-4", "o">>
MISTRAL == <<"mistralai/", "mistral-7b">>

\* catalogs the model-listing endpoint may return
SmallCatalog == << GPT4O, MISTRAL >>
StaleCatalog == << MISTRAL >>

\* a catalog with more models than may be selected
BigCatalog ==
    [ i \in 1..(MAX_SELECTABLE_OPENROUTER_MODELS + ExtraModels) |->
        IF i = 1 THEN GPT4O
        ELSE IF i = 2 THEN MISTRAL
        ELSE <<"vendor/", "m", ToString(i)>> ]

\* the dropdown entries the user picks
PickedModels == { GEMINI_FLASH_ID, OPENROUTER_PREFIX \o GPT4O, OPENROUTER_PREFIX \o MISTRAL }

\* the checkboxes the user clicks
ToggleIds == { GPT4O, BigCatalog[Len(BigCatalog)] }

StoredSetup ==
    [ EmptyStorage EXCEPT
        !.openrouter_api_key = "sk-or-1",
        !.selected_openrouter_models = << GPT4O, MISTRAL >> ]

\* localStorage is not the component's own: a stored selection may hold more
\* ids than the cap, which is why Effect 1 slices it.
OverfullSetup ==
    [ EmptyStorage EXCEPT
        !.openrouter_api_key = "sk-or-1",
        !.selected_openrouter_models = BigCatalog ]

\* --------------------------------------------------------------- actions
Boot ==
    /\ ~mounted
    /\ Commit(MountEffects(Cur), "boot", null)

Reload ==
    /\ mounted
    /\ nextSessionId <= MaxSessionIds
    /\ localStorage.openrouter_api_key = "" \/ nextFetchId <= MaxFetchIds
    /\ Commit(InitialState(localStorage, now, nextSessionId, nextMessageId, nextFetchId),
              "reload", null)

Tick ==
    /\ mounted
    /\ now < MaxClock
    /\ now' = now + 1
    /\ UNCHANGED << chatSessions, activeSessionId, thinkingMessageId, isSending, input,
                    selectedFile, activeTab, openRouterApiKey, allOpenRouterModels,
                    selectedOpenRouterModelIds, activeModels, selectedModel,
                    isFetchingModels, fetchModelsError, filterTerm, localStorage,
                    pendingSends, pendingFetches, mounted, nextSessionId,
                    nextMessageId, nextFetchId, last >>

NewChat ==
    /\ mounted
    /\ nextSessionId <= MaxSessionIds
    /\ Commit(Effects(createNewSession(Cur)), "createSession", null)

\* switchSession creates a session only for an id that is not there while
\* the stored active id names no session
SwitchCreatesNone(id) ==
    \/ id = activeSessionId
    \/ SomeId(chatSessions, id)
    \/ SomeId(chatSessions, localStorage.active_chat_session_id)

SwitchSession ==
    /\ mounted
    /\ \E id \in 1..(nextSessionId - 1) :
        /\ SwitchCreatesNone(id) \/ nextSessionId <= MaxSessionIds
        /\ Commit(Effects(switchSession(Cur, id)), "switchActive", id)

DeleteSession ==
    /\ mounted
    /\ Len(chatSessions) >= 2 \/ nextSessionId <= MaxSessionIds
    /\ \E i \in 1..Len(chatSessions) :
        Commit(Effects(deleteSession(Cur, chatSessions[i].id)), "deleteSession",
               chatSessions[i].id)

\* the text typed into the rename field
SessionNames ==
    { <<" ">>, <<" ", "a", " ">>, [i \in 1..(MAX_SESSION_NAME_LENGTH + 1) |-> "x"] }

\* the tag lists put together in the tag editor (handleAddTag trims and
\* lower-cases each tag)
TagLists == { <<>>, <<"t">> }

\* the targets offered by the move-to-folder dialog: no folder, or a folder
FolderIds == { null, 1 }

\* the rows of the session list whose edit controls are used: the row of the
\* session that is active after the first boot
EditedSessionIds == { 2 }

EditableRows == { i \in 1..Len(chatSessions) : chatSessions[i].id \in EditedSessionIds }

\* startEditingSessionName, typing, then saveEditedSessionName
RenameSession ==
    /\ mounted
    /\ \E i \in EditableRows, name \in SessionNames :
        Commit(Effects(saveEditedSessionName(Cur, chatSessions[i].id, name)),
               "renameSession", chatSessions[i].id)

ToggleBookmark ==
    /\ mounted
    /\ \E i \in EditableRows :
        Commit(Effects(toggleBookmark(Cur, chatSessions[i].id)),
               "toggleBookmark", chatSessions[i].id)

\* openMoveToFolderModal, then handleMoveSessionToFolder
MoveSessionToFolder ==
    /\ mounted
    /\ \E i \in EditableRows, folderId \in FolderIds :
        Commit(Effects(handleMoveSessionToFolder(Cur, chatSessions[i].id, folderId)),
               "moveToFolder", chatSessions[i].id)

\* startEditingTags, handleAddTag / handleRemoveTag, then handleSaveTags
SaveTags ==
    /\ mounted
    /\ \E i \in EditableRows, tags \in TagLists :
        Commit(Effects(handleSaveTags(Cur, chatSessions[i].id, tags)),
               "saveTags", chatSessions[i].id)

NewChatStorageThrows ==
    /\ mounted
    /\ nextSessionId <= MaxSessionIds
    /\ Commit(Effects(createNewSessionStorageThrows(Cur)), "createSessionStorageThrows", null)

SwitchSessionStorageThrows ==
    /\ mounted
    /\ \E id \in 1..(nextSessionId - 1) :
        /\ SwitchCreatesNone(id) \/ nextSessionId <= MaxSessionIds
        /\ Commit(Effects(switchSessionStorageThrows(Cur, id)), "switchActiveStorageThrows", id)

DeleteSessionStorageThrows ==
    /\ mounted
    /\ Len(chatSessions) >= 2
    /\ nextSessionId <= MaxSessionIds
    /\ \E i \in 1..Len(chatSessions) :
        LET after == deleteSessionStorageThrows(Cur, chatSessions[i].id)
        IN  Commit(IF after.mounted THEN Effects(after) ELSE after,
                   "deleteSessionStorageThrows", chatSessions[i].id)

RenameSessionStorageThrows ==
    /\ mounted
    /\ \E i \in EditableRows, name \in SessionNames :
        Commit(Effects(saveEditedSessionNameStorageThrows(Cur, chatSessions[i].id, name)),
               "renameSessionStorageThrows", [id |-> chatSessions[i].id, name |-> name])

SelectTab ==
    /\ mounted
    /\ \E t \in Tabs :
        /\ t # activeTab
        /\ Commit(Effects([Cur EXCEPT !.activeTab = t]), "selectTab", null)

SetInput ==
    /\ mounted
    /\ ~isSending
    /\ activeSessionId # null
    /\ \E t \in Texts :
        /\ t # input
        /\ Commit(Effects([Cur EXCEPT !.input = t]), "setInput", null)

\* handleFileChange with a file of at most 10MB
AttachFile ==
    /\ mounted
    /\ ~isSending
    /\ selectedModel.provider # "openrouter"
    /\ ~selectedFile
    /\ Commit(Effects([Cur EXCEPT !.selectedFile = TRUE]), "attachFile", null)

SelectModel ==
    /\ mounted
    /\ ~isSending
    /\ \E i \in 1..Len(activeModels) :
        /\ activeModels[i].id \in PickedModels
        /\ activeModels[i] # selectedModel
        /\ Commit(Effects([Cur EXCEPT !.selectedModel = activeModels[i]]), "selectModel", null)

\* a send affordance that stays enabled while a send is outstanding
SendDisabledIgnoresSending(s) == s.activeSessionId = null

\* disabled={isSending || !activeSessionId} on the textarea and the send button
SendDisabled(s) == s.isSending \/ s.activeSessionId = null

\* The Send button and the Enter key of the textarea; handleSend has no
\* isSending check of its own.
Send ==
    /\ mounted
    /\ ~SendDisabled(Cur)
    /\ nextMessageId + 2 <= MaxMessageIds
    /\ Commit(Effects(handleSend(Cur)),
              IF SendAccepted(Cur) THEN "send" ELSE "sendRejected", activeSessionId)

BackendOutcomes ==
    { [ok |-> TRUE, text |-> r] : r \in Responses } \cup
    { [ok |-> FALSE, text |-> e] : e \in ErrorMessages }

Outcome(c, backend) ==
    smartAssistantPrompting(c.selectedModel.id, c.hasFile, c.apiKey, backend)

SettleSuccess ==
    /\ mounted
    /\ \E i \in 1..Len(pendingSends), b \in BackendOutcomes :
        LET c == pendingSends[i]
            out == Outcome(c, b)
        IN  /\ out.ok
            /\ Commit(Effects(sendResolved(Cur, c, out.text)), "resolveSuccess", c.id)

SettleFailure ==
    /\ mounted
    /\ \E i \in 1..Len(pendingSends), b \in BackendOutcomes :
        LET c == pendingSends[i]
            out == Outcome(c, b)
        IN  /\ ~out.ok
            /\ Commit(Effects(sendFailed(Cur, c, out.text)), "resolveFailure", c.id)

FetchSettleSuccess(catalogs) ==
    /\ mounted
    /\ \E f \in pendingFetches, cat \in catalogs :
        Commit(Effects(fetchSucceeded(Cur, f, cat)), "fetchSuccess", [id |-> f.id, models |-> cat])

\* the message of the error thrown in fetchOpenRouterModels: the status line,
\* or error.message of the response body, which is whatever the server wrote
FetchErrorMessages ==
    { <<"Failed to fetch models: ", "401">>,
      <<"API Key is required to fetch models.">> }

FetchSettleFailure ==
    /\ mounted
    /\ \E f \in pendingFetches, message \in FetchErrorMessages :
        Commit(Effects(fetchFailed(Cur, f, message)), "fetchFailure", null)

\* fetchOpenRouterModels called with any key. Its callers pass a key that is
\* not empty (Effect 1, Save Key, Refresh List); the function itself also
\* takes the empty one.
FetchModels ==
    /\ mounted
    /\ nextFetchId <= MaxFetchIds
    /\ \E k \in ApiKeys :
        Commit(Effects(fetchOpenRouterModels(Cur, k)), "fetchModels", k)

\* onChange of the API key input
SetApiKey ==
    /\ mounted
    /\ \E k \in ApiKeys :
        /\ k # openRouterApiKey
        /\ Commit(Effects([Cur EXCEPT !.openRouterApiKey = k]), "setApiKey", null)

\* Save Key, disabled while the key is blank
SaveApiKey ==
    /\ mounted
    /\ openRouterApiKey # ""
    /\ nextFetchId <= MaxFetchIds
    /\ Commit(Effects(handleSaveApiKey(Cur)), "saveApiKey", null)

\* Refresh List, disabled={isFetchingModels || !openRouterApiKey}
RefreshModels ==
    /\ mounted
    /\ ~isFetchingModels
    /\ openRouterApiKey # ""
    /\ nextFetchId <= MaxFetchIds
    /\ Commit(Effects(handleRefreshModels(Cur)), "refreshModels", null)

\* The model list of the settings tab is rendered when this holds.
ModelListShown ==
    /\ mounted
    /\ openRouterApiKey # ""
    /\ ~isFetchingModels
    /\ Len(allOpenRouterModels) > 0

SetFilter ==
    /\ ModelListShown
    /\ \E t \in FilterTerms :
        /\ t # filterTerm
        /\ Commit(Effects([Cur EXCEPT !.filterTerm = t]), "setFilter", null)

\* onCheckedChange of a model's checkbox. The handler is called whether or
\* not the checkbox is rendered disabled, so that its own guard decides.
ToggleModel ==
    /\ ModelListShown
    /\ \E m \in Range(filteredModels(Cur)) \cap ToggleIds :
        LET checked == m \notin Range(selectedOpenRouterModelIds)
        IN  Commit(Effects(handleModelSelectionChange(Cur, m, checked)),
                   IF checked THEN "toggleOn" ELSE "toggleOff", m)

SelectAllFiltered ==
    /\ ModelListShown
    /\ Commit(Effects(handleSelectAllFilteredModels(Cur)), "selectAll", null)

DeselectAllFiltered ==
    /\ ModelListShown
    /\ Commit(Effects(handleDeselectAllFilteredModels(Cur)), "deselectAll", null)

ImportSelectedModels ==
    /\ ModelListShown
    /\ Commit(Effects(handleImportSelectedModels(Cur)), "importSelected", null)

\* ----------------------------------------------------------- specifications
Holds(s) ==
    /\ chatSessions = s.chatSessions
    /\ activeSessionId = s.activeSessionId
    /\ thinkingMessageId = s.thinkingMessageId
    /\ isSending = s.isSending
    /\ input = s.input
    /\ selectedFile = s.selectedFile
    /\ activeTab = s.activeTab
    /\ openRouterApiKey = s.openRouterApiKey
    /\ allOpenRouterModels = s.allOpenRouterModels
    /\ selectedOpenRouterModelIds = s.selectedOpenRouterModelIds
    /\ activeModels = s.activeModels
    /\ selectedModel = s.selectedModel
    /\ isFetchingModels = s.isFetchingModels
    /\ fetchModelsError = s.fetchModelsError
    /\ filterTerm = s.filterTerm
    /\ localStorage = s.localStorage
    /\ pendingSends = s.pendingSends
    /\ pendingFetches = s.pendingFetches
    /\ mounted = s.mounted
    /\ now = s.now
    /\ nextSessionId = s.nextSessionId
    /\ nextMessageId = s.nextMessageId
    /\ nextFetchId = s.nextFetchId
    /\ last = [op |-> "init", arg |-> null, prev |-> PrevOf(s)]

\* --- Spec: the session store. First page load with nothing stored; the
\* default model is the only one.
Init == Holds(InitialState(EmptyStorage, 1, 1, 1, 1))

Next ==
    \/ Boot
    \/ Reload
    \/ NewChat
    \/ SwitchSession
    \/ DeleteSession
    \/ SetInput
    \/ Send
    \/ SettleSuccess
    \/ SettleFailure

Spec == Init /\ [][Next]_vars

\* --- LiveSpec: the session store without reload, where the provider call of
\* every send returns or throws.
LiveInit == Holds(InitialState(EmptyStorage, 1, 1, 1, 1))

LiveNext ==
    \/ Boot
    \/ SwitchSession
    \/ DeleteSession
    \/ SetInput
    \/ Send
    \/ SettleSuccess
    \/ SettleFailure

LiveSpec ==
    /\ LiveInit
    /\ [][LiveNext]_vars
    /\ WF_vars(SettleSuccess \/ SettleFailure)

\* --- SessionSpec: every operation that changes the session collection,
\* with page reloads.
SessionInit == Holds(InitialState(EmptyStorage, 1, 1, 1, 1))

SessionNext ==
    \/ Boot
    \/ Reload
    \/ NewChat
    \/ DeleteSession
    \/ RenameSession
    \/ ToggleBookmark
    \/ MoveSessionToFolder
    \/ SaveTags
    \/ SetInput
    \/ Send
    \/ SettleSuccess
    \/ SettleFailure

SessionSpec == SessionInit /\ [][SessionNext]_vars

\* --- FetchSpec: the catalog fetch with every way of starting it, and the
\* handlers that write the stored selection.
FetchInit == Holds(InitialState(StoredSetup, 1, 1, 1, 1))

FetchNext ==
    \/ Boot
    \/ SetApiKey
    \/ SaveApiKey
    \/ RefreshModels
    \/ FetchModels
    \/ FetchSettleSuccess({SmallCatalog, StaleCatalog})
    \/ FetchSettleFailure
    \/ ToggleModel
    \/ ImportSelectedModels
    \/ SelectModel

FetchSpec == FetchInit /\ [][FetchNext]_vars

\* --- QuotaSpec: the session handlers with storage writes that succeed or
\* throw.
QuotaInit == Holds(InitialState(EmptyStorage, 1, 1, 1, 1))

QuotaNext ==
    \/ Boot
    \/ NewChat
    \/ SwitchSession
    \/ DeleteSession
    \/ RenameSession
    \/ SetInput
    \/ NewChatStorageThrows
    \/ SwitchSessionStorageThrows
    \/ DeleteSessionStorageThrows
    \/ RenameSessionStorageThrows

QuotaSpec == QuotaInit /\ [][QuotaNext]_vars

\* --- RouterSpec: smartAssistantPrompting on its own. It is an exported
\* server function: a request carries any model id, with or without a file
\* and a key.
RouterModelIds ==
    { GEMINI_FLASH_ID,
      <<"googleai/", "gemini-1.5-pro">>,
      OPENROUTER_PREFIX \o GPT4O,
      OPENROUTER_PREFIX \o MISTRAL,
      <<>>,
      <<"gemini-2.0-flash">>,
      <<"anthropic/", "claude-3-opus">>,
      <<"Googleai/", "gemini-2.0-flash">>,
      <<"OPENROUTER/", "openai/", "gpt-4", "o">>,
      <<"x-", "openrouter/", "openai/", "gpt-4", "o">> }

Request(modelId, text, hasFile, apiKey) ==
    [ id |-> 1,
      activeSessionId |-> null,
      thinkingMsgId |-> 1,
      userMessageText |-> text,
      hasFile |-> hasFile,
      selectedModel |-> [id |-> modelId, provider |-> "any"],
      apiKey |-> apiKey,
      thinkingMessageId |-> null ]

RouterInit ==
    \E m \in RouterModelIds, t \in Texts, f \in BOOLEAN, k \in ApiKeys :
        Holds([ InitialState(EmptyStorage, 1, 1, 1, 1) EXCEPT
                    !.pendingSends = << Request(m, t, f, k) >> ])

Route ==
    /\ last.op = "init"
    /\ pendingSends # <<>>
    /\ \E b \in BackendOutcomes :
        Commit(Cur, "smartAssistantPrompting", Outcome(pendingSends[1], b))

RouterNext == Route

RouterSpec == RouterInit /\ [][RouterNext]_vars

\* --- CostSpec: calculateCost on its own, as handleSend calls it after the
\* await with the lengths of the user text and of the response.
CostModelIds ==
    { GEMINI_FLASH_ID,
      OPENROUTER_PREFIX \o MISTRAL,
      OPENROUTER_PREFIX \o GPT4O,
      <<"googleai/", "gemini-1.5-pro">>,
      <<"googleai/", "gemini-1.5-flash">>,
      <<"openrouter/", "anthropic/", "claude-3-sonnet">>,
      <<"other/", "m">>,
      <<>> }

Chars(n) == [ i \in 1..n |-> "x" ]

CostInputLengths == { 0, 1, 2, 100 }

CostOutputLengths == { 0, 1, 3, 200 }

CostInit ==
    \E m \in CostModelIds, n \in CostInputLengths, f \in BOOLEAN :
        Holds([ InitialState(EmptyStorage, 1, 1, 1, 1) EXCEPT
                    !.pendingSends = << Request(m, Chars(n), f, "") >> ])

Estimate ==
    /\ last.op = "init"
    /\ pendingSends # <<>>
    /\ \E n \in CostOutputLengths :
        LET c == pendingSends[1]
            responseText == Chars(n)
        IN  Commit(Cur, "calculateCost",
                   [ outputLength |-> Len(responseText),
                     cost |-> calculateCost(c.selectedModel.id, Len(c.userMessageText),
                                            Len(responseText), c.hasFile) ])

CostNext == Estimate

CostSpec == CostInit /\ [][CostNext]_vars

\* --- NameSpec: turns whose texts are shorter than, as long as and longer
\* than the name bound; no reload.
NameTexts ==
    { <<"h", "i">>,
      Chars(SESSION_NAME_TRUNCATE_LENGTH - 1),
      Chars(SESSION_NAME_TRUNCATE_LENGTH),
      Chars(SESSION_NAME_TRUNCATE_LENGTH + 1) }

\* typing into the message textarea
TypeText ==
    /\ mounted
    /\ ~isSending
    /\ activeSessionId # null
    /\ \E t \in NameTexts :
        /\ t # input
        /\ Commit(Effects([Cur EXCEPT !.input = t]), "setInput", null)

NameNext ==
    \/ Boot
    \/ SwitchSession
    \/ TypeText
    \/ Send
    \/ SettleSuccess
    \/ SettleFailure

NameSpec == Init /\ [][NameNext]_vars

\* --- OrderSpec: the session store with time passing between operations, so
\* that the sessions' lastModified stamps differ; no reload.
OrderInit == Holds(InitialState(EmptyStorage, 1, 1, 1, 1))

OrderNext ==
    \/ Boot
    \/ Tick
    \/ NewChat
    \/ SwitchSession
    \/ DeleteSession
    \/ SetInput
    \/ Send
    \/ SettleSuccess

OrderSpec == OrderInit /\ [][OrderNext]_vars

\* --- TurnSpec: the send / resolve round trip with every kind of turn (text,
\* file, first-party and aggregator models). An earlier visit has saved a key
\* and a selection; the listing endpoint answers with SmallCatalog.
TurnInit == Holds(InitialState(StoredSetup, 1, 1, 1, 1))

TurnNext ==
    \/ Boot
    \/ FetchSettleSuccess({SmallCatalog})
    \/ SwitchSession
    \/ DeleteSession
    \/ SetInput
    \/ AttachFile
    \/ SelectModel
    \/ Send
    \/ SettleSuccess
    \/ SettleFailure

TurnSpec == TurnInit /\ [][TurnNext]_vars

\* --- ModelSpec: the model registry. An earlier visit has saved a key and a
\* selection; the listing endpoint answers with BigCatalog or StaleCatalog,
\* or fails.
ModelInit ==
    \E storage \in { StoredSetup, OverfullSetup } :
        Holds(InitialState(storage, 1, 1, 1, 1))

ModelNext ==
    \/ Boot
    \/ SetApiKey
    \/ RefreshModels
    \/ FetchSettleSuccess({BigCatalog, StaleCatalog})
    \/ FetchSettleFailure
    \/ SetFilter
    \/ ToggleModel
    \/ SelectAllFiltered
    \/ DeselectAllFiltered
    \/ SelectModel

ModelSpec == ModelInit /\ [][ModelNext]_vars

\* --- CalcSpec: calculateActiveModels on its own, applied to selections and
\* catalogs drawn from CalcSelections and CalcCatalogs.
Reverse(s) == [ i \in 1..Len(s) |-> s[Len(s) + 1 - i] ]

CalcSelections ==
    { <<>>, <<GPT4O>>, <<MISTRAL>>, <<GPT4O, MISTRAL>>, <<MISTRAL, GPT4O>>,
      <<BigCatalog[Len(BigCatalog)]>>, <<BigCatalog[Len(BigCatalog)], GPT4O>>,
      Slice0(BigCatalog, MAX_SELECTABLE_OPENROUTER_MODELS),
      Reverse(Slice0(BigCatalog, MAX_SELECTABLE_OPENROUTER_MODELS)),
      Tail(BigCatalog), Tail(Tail(BigCatalog)), BigCatalog, Reverse(BigCatalog) }

CalcCatalogs ==
    { <<>>, SmallCatalog, StaleCatalog, Reverse(SmallCatalog), BigCatalog,
      Reverse(BigCatalog), Tail(BigCatalog), Slice0(BigCatalog, 3), SmallCatalog \o SmallCatalog }

CalcInit ==
    \E selection \in CalcSelections, catalog \in CalcCatalogs :
        Holds([ InitialState(EmptyStorage, 1, 1, 1, 1) EXCEPT
                    !.selectedOpenRouterModelIds = selection,
                    !.allOpenRouterModels = catalog ])

Calculate ==
    Commit([ Cur EXCEPT !.activeModels =
                calculateActiveModels(selectedOpenRouterModelIds, allOpenRouterModels) ],
           "calculateActiveModels", null)

CalcNext == Calculate

CalcSpec == CalcInit /\ [][CalcNext]_vars

\* ================================================================= claims
Ids(xs) == { xs[i].id : i \in 1..Len(xs) }

\* position of the element with this id
IndexOfId(xs, id) == CHOOSE i \in 1..Len(xs) : xs[i].id = id

IsPlaceholder(m) == m.sender = "ai" /\ m.thinkingSteps # <<>>

\* A step that settles the pending send c with this outcome
Settles(c, op) ==
    /\ last'.op = op
    /\ last'.arg = c.id
    /\ ~SomeId(pendingSends', c.id)

\* ---------------------------------------------------------------- C1
\* C1: once the page is mounted, after every operation and its effects the
\* active-session pointer is the id of exactly one session of the
\* collection, and it is null only when the collection is empty.
C1_ActivePointerValid ==
    mounted =>
        /\ activeSessionId # null =>
             Cardinality({ i \in 1..Len(chatSessions) : chatSessions[i].id = activeSessionId }) = 1
        /\ activeSessionId = null => chatSessions = <<>>

\* the active session was deleted while others remained, and another one is active
C1_Witness ==
    /\ mounted
    /\ last.op = "deleteSession"
    /\ last.arg = last.prev.activeSessionId
    /\ Len(chatSessions) >= 2
    /\ SomeId(chatSessions, activeSessionId)
    /\ ~SomeId(chatSessions, last.arg)

\* ---------------------------------------------------------------- C2
\* C2: resolving a turn successfully adds exactly the computed cost, which
\* is strictly positive, to the session's totalCost; the message count is
\* unchanged; the placeholder id is gone; and the final AI message stands
\* where the placeholder stood, every other message staying in place.
C2_SuccessfulTurn ==
    [][ \A k \in 1..Len(pendingSends) :
          LET c == pendingSends[k] IN
          (Settles(c, "resolveSuccess") /\ SomeId(chatSessions, c.activeSessionId)) =>
            LET before == FindId(chatSessions, c.activeSessionId)
                after == FindId(chatSessions', c.activeSessionId)
                pos == IndexOfId(before.messages, c.thinkingMsgId)
                final == after.messages[pos]
                user == before.messages[pos - 1]
            IN  /\ SomeId(before.messages, c.thinkingMsgId)
                /\ IsPlaceholder(before.messages[pos])
                /\ Len(after.messages) = Len(before.messages)
                /\ ~SomeId(after.messages, c.thinkingMsgId)
                /\ \A j \in 1..Len(before.messages) :
                     j # pos => after.messages[j] = before.messages[j]
                /\ final.sender = "ai" /\ ~final.isError /\ ~IsPlaceholder(final)
                /\ user.sender = "user"
                /\ final.cost =
                     calculateCost(final.modelId, Len(user.text), Len(final.text), user.hasFile)
                /\ final.cost > 0
                /\ after.totalCost = before.totalCost + final.cost
      ]_vars

\* a turn with a file and no text was resolved successfully
C2_Witness ==
    /\ last.op = "resolveSuccess"
    /\ \E i \in 1..Len(chatSessions) :
         LET ms == chatSessions[i].messages IN
         /\ Len(ms) >= 2
         /\ ms[Len(ms)].id = nextMessageId - 1
         /\ ms[Len(ms)].hasCost /\ ~ms[Len(ms)].isError
         /\ ms[Len(ms) - 1].text = <<>> /\ ms[Len(ms) - 1].hasFile
         /\ chatSessions[i].totalCost >= ms[Len(ms)].cost

\* ---------------------------------------------------------------- C3
\* C3: resolving a turn whose provider call failed leaves the session's
\* totalCost as it was (as does every step other than a successful
\* resolve), and the message that replaces the placeholder has isError =
\* TRUE and sender = ai.
C3_FailedTurn ==
    [][ /\ \A k \in 1..Len(pendingSends) :
             LET c == pendingSends[k] IN
             (Settles(c, "resolveFailure") /\ SomeId(chatSessions, c.activeSessionId)) =>
               LET before == FindId(chatSessions, c.activeSessionId)
                   after == FindId(chatSessions', c.activeSessionId)
                   pos == IndexOfId(before.messages, c.thinkingMsgId)
                   final == after.messages[pos]
               IN  /\ SomeId(before.messages, c.thinkingMsgId)
                   /\ Len(after.messages) = Len(before.messages)
                   /\ ~SomeId(after.messages, c.thinkingMsgId)
                   /\ final.isError = TRUE
                   /\ final.sender = "ai"
                   /\ after.totalCost = before.totalCost
        /\ (\A k \in 1..Len(pendingSends) : ~Settles(pendingSends[k], "resolveSuccess")) =>
             \A i \in 1..Len(chatSessions) :
               SomeId(chatSessions', chatSessions[i].id) =>
                 FindId(chatSessions', chatSessions[i].id).totalCost = chatSessions[i].totalCost
      ]_vars

\* a turn was resolved with an error in a session that already had a cost
C3_Witness ==
    /\ last.op = "resolveFailure"
    /\ \E i \in 1..Len(chatSessions) :
         LET ms == chatSessions[i].messages IN
         /\ Len(ms) >= 4
         /\ ms[Len(ms)].id = nextMessageId - 1
         /\ ms[Len(ms)].isError
         /\ chatSessions[i].totalCost > 0

\* ---------------------------------------------------------------- C4
RECURSIVE SumSuccessfulCosts(_)
SumSuccessfulCosts(ms) ==
    IF ms = <<>> THEN 0
    ELSE LET m == ms[1] IN
         (IF m.sender = "ai" /\ ~m.isError /\ ~IsPlaceholder(m) /\ m.hasCost THEN m.cost ELSE 0)
         + SumSuccessfulCosts(Tail(ms))

\* the sessions as the user has them: in memory once mounted, persisted before
SessionsView == IF mounted THEN chatSessions ELSE loadSessions(localStorage.chat_sessions, now)

C4_TotalIsSum ==
    \A i \in 1..Len(SessionsView) :
        SessionsView[i].totalCost = SumSuccessfulCosts(SessionsView[i].messages)

C4_NeverDecreases ==
    \A i \in 1..Len(SessionsView) :
        SomeId(SessionsView', SessionsView[i].id) =>
            FindId(SessionsView', SessionsView[i].id).totalCost >= SessionsView[i].totalCost

\* C4: in every reachable state each session's totalCost equals the sum of
\* the costs of its successful (non-error, non-placeholder) AI messages, and
\* no step decreases a session's totalCost.
C4_CostAccounting == [] C4_TotalIsSum /\ [][C4_NeverDecreases]_vars

\* a session holds a failed turn followed by a successful one, and its total
\* is the cost of the successful one
C4_Witness ==
    \E i \in 1..Len(chatSessions) :
        LET ms == chatSessions[i].messages IN
        /\ Len(ms) = 4
        /\ ms[2].sender = "ai" /\ ms[2].isError
        /\ ms[4].sender = "ai" /\ ~ms[4].isError /\ ~IsPlaceholder(ms[4])
        /\ ms[4].cost > 0
        /\ chatSessions[i].totalCost = ms[4].cost

\* ---------------------------------------------------------------- C5
\* A step that deletes the session with this id
Deletes(id) ==
    /\ last'.op = "deleteSession"
    /\ last'.arg = id
    /\ SomeId(chatSessions, id)
    /\ ~SomeId(chatSessions', id)

\* C5: deleting the active session while others remain leaves a session of
\* the remaining collection active; deleting the only session leaves
\* exactly one session, which is new, empty, has zero cost and is active.
C5_DeleteActive ==
    [][ \A id \in Ids(chatSessions) :
          (Deletes(id) /\ id = activeSessionId) =>
            IF Len(chatSessions) > 1
            THEN /\ Ids(chatSessions') = Ids(chatSessions) \ {id}
                 /\ activeSessionId' \in Ids(chatSessions) \ {id}
            ELSE /\ Len(chatSessions') = 1
                 /\ chatSessions'[1].id \notin Ids(chatSessions)
                 /\ chatSessions'[1].messages = <<>>
                 /\ chatSessions'[1].totalCost = 0
                 /\ chatSessions'[1].name = DEFAULT_SESSION_NAME
                 /\ activeSessionId' = chatSessions'[1].id
      ]_vars

\* the only session, which had messages, was deleted and a fresh one took its place
C5_Witness ==
    /\ last.op = "deleteSession"
    /\ last.arg = last.prev.activeSessionId
    /\ last.prev.sessionCount = 1
    /\ Len(chatSessions) = 1
    /\ chatSessions[1].id = nextSessionId - 1
    /\ chatSessions[1].id = activeSessionId
    /\ chatSessions[1].messages = <<>>
    /\ nextMessageId > 1

\* ---------------------------------------------------------------- C6
\* C6 as stated: when the active session is deleted while others remain,
\* the session that becomes active has the greatest lastModified of the
\* remaining sessions.
C6_AsStated ==
    [][ \A id \in Ids(chatSessions) :
          (Deletes(id) /\ id = activeSessionId /\ Len(chatSessions) > 1) =>
            /\ SomeId(chatSessions', activeSessionId')
            /\ \A j \in 1..Len(chatSessions') :
                 FindId(chatSessions', activeSessionId').lastModified
                    >= chatSessions'[j].lastModified
      ]_vars

\* C6: when the active session is deleted while others remain, the session
\* that becomes active is the first session of the remaining collection, in
\* collection order (most recently created first).
C6_FirstRemaining ==
    [][ \A id \in Ids(chatSessions) :
          (Deletes(id) /\ id = activeSessionId /\ Len(chatSessions) > 1) =>
            /\ chatSessions' = RemoveId(chatSessions, id)
            /\ activeSessionId' = chatSessions'[1].id
      ]_vars

\* the active session was deleted and the first remaining session, which is
\* not the most recently modified one, became active
C6_Witness ==
    /\ last.op = "deleteSession"
    /\ last.arg = last.prev.activeSessionId
    /\ last.prev.sessionCount = 3
    /\ Len(chatSessions) = 2
    /\ activeSessionId = chatSessions[1].id
    /\ chatSessions[1].lastModified < chatSessions[2].lastModified

\* ---------------------------------------------------------------- C7
C7_WithinCap ==
    mounted =>
        /\ Len(selectedOpenRouterModelIds) <= MAX_SELECTABLE_OPENROUTER_MODELS
        /\ Cardinality(Range(selectedOpenRouterModelIds)) = Len(selectedOpenRouterModelIds)

C7_ToggleAtCapRejected ==
    ( /\ mounted
      /\ last'.op = "toggleOn"
      /\ Len(selectedOpenRouterModelIds) >= MAX_SELECTABLE_OPENROUTER_MODELS )
    => selectedOpenRouterModelIds' = selectedOpenRouterModelIds

\* C7: after the boot load and after any sequence of toggles, select-all,
\* deselect-all and catalog refreshes, the selected aggregator-model ids are
\* at most MAX_SELECTABLE_OPENROUTER_MODELS distinct ids; a toggle that would
\* add an id while the selection is at the cap leaves the selection as it was.
C7_SelectionCap == [] C7_WithinCap /\ [][C7_ToggleAtCapRejected]_vars

\* the selection is at the cap and a toggle has just tried to add one more id
C7_Witness ==
    /\ mounted
    /\ last.op = "toggleOn"
    /\ Len(selectedOpenRouterModelIds) = MAX_SELECTABLE_OPENROUTER_MODELS
    /\ last.arg \notin Range(selectedOpenRouterModelIds)

\* ---------------------------------------------------------------- C8
\* the catalog indices whose id is selected
SelectedIndices(S, C) == { i \in 1..Len(C) : C[i] \in S }

\* the k-th of them, in catalog order
KthSelected(S, C, k) ==
    CHOOSE i \in SelectedIndices(S, C) :
        Cardinality({ j \in SelectedIndices(S, C) : j <= i }) = k

Min(a, b) == IF a < b THEN a ELSE b

\* C8: calculateActiveModels(S, C) is the default first-party models
\* followed by the catalog entries whose id is in S, in catalog order, at
\* most MAX_SELECTABLE_OPENROUTER_MODELS of them; the defaults come first for
\* every S and C, and nothing but the set S and the catalog C decides the result.
C8_ActiveModels ==
    last.op = "calculateActiveModels" =>
        LET S == Range(selectedOpenRouterModelIds)
            C == allOpenRouterModels
            d == Len(DEFAULT_GOOGLE_MODELS)
            n == Min(Cardinality(SelectedIndices(S, C)), MAX_SELECTABLE_OPENROUTER_MODELS)
        IN  /\ Len(activeModels) = d + n
            /\ SubSeq(activeModels, 1, d) = DEFAULT_GOOGLE_MODELS
            /\ \A k \in 1..n :
                 activeModels[d + k] =
                    [ id |-> OPENROUTER_PREFIX \o C[KthSelected(S, C, k)],
                      provider |-> "openrouter" ]

\* more catalog entries were selected than the maximum, and the list was cut
C8_Witness ==
    /\ last.op = "calculateActiveModels"
    /\ Cardinality(SelectedIndices(Range(selectedOpenRouterModelIds), allOpenRouterModels))
          > MAX_SELECTABLE_OPENROUTER_MODELS
    /\ Len(activeModels) = Len(DEFAULT_GOOGLE_MODELS) + MAX_SELECTABLE_OPENROUTER_MODELS

\* ---------------------------------------------------------------- C9
C9_SelectedIsActive == mounted => SomeId(activeModels, selectedModel.id)

C9_ResetRule ==
    ( /\ mounted'
      /\ activeModels' # activeModels
      /\ ~SomeId(activeModels', selectedModel.id) )
    => selectedModel' =
          IF SomeId(activeModels', DEFAULT_GOOGLE_MODELS[1].id)
          THEN FindId(activeModels', DEFAULT_GOOGLE_MODELS[1].id)
          ELSE activeModels'[1]

\* C9: when the active-model list changes and the selected model is no
\* longer in it, the selected model becomes the first-party default if the
\* list has it, the first entry of the list otherwise; once the effects have
\* run the selected model is a member of the active-model list.
C9_SelectedModelReset == [] C9_SelectedIsActive /\ [][C9_ResetRule]_vars

\* an aggregator model was selected, left the active list, and the default took its place
C9_Witness ==
    /\ mounted
    /\ last.prev.selectedModel = OPENROUTER_PREFIX \o GPT4O
    /\ ~SomeId(activeModels, last.prev.selectedModel)
    /\ selectedModel = DEFAULT_GOOGLE_MODELS[1]
    /\ last.op \in { "toggleOff", "deselectAll", "fetchSuccess", "fetchFailure" }

\* ---------------------------------------------------------------- C10
C10_OneOutstanding ==
    /\ Len(pendingSends) <= 1
    /\ pendingSends # <<>> => (isSending /\ SendDisabled(Cur))

C10_NothingAppended ==
    pendingSends # <<>> =>
        \A i \in 1..Len(chatSessions) :
            SomeId(chatSessions', chatSessions[i].id) =>
                Len(FindId(chatSessions', chatSessions[i].id).messages)
                    = Len(chatSessions[i].messages)

\* C10: at most one send is outstanding; from the moment a send is accepted
\* until it settles the send affordance is disabled, and no user turn or
\* placeholder is appended to any session in that interval.
C10_SingleSend == [] C10_OneOutstanding /\ [][C10_NothingAppended]_vars

\* a send is outstanding while the user has moved to another session
C10_Witness ==
    /\ Len(pendingSends) = 1
    /\ isSending
    /\ activeSessionId # pendingSends[1].activeSessionId
    /\ SomeId(chatSessions, pendingSends[1].activeSessionId)
    /\ last.op = "switchActive"

\* ---------------------------------------------------------------- C11
\* at most one send is outstanding at a time, so "the outstanding send has
\* settled" is "none is outstanding"
C11_Settles == (pendingSends # <<>>) ~> (pendingSends = <<>> /\ ~isSending)

C11_SettledState ==
    \A k \in 1..Len(pendingSends) :
        LET c == pendingSends[k] IN
        (Settles(c, "resolveSuccess") \/ Settles(c, "resolveFailure")) =>
            /\ isSending' = FALSE
            /\ ~SendDisabled(Cur')
            /\ SomeId(chatSessions, c.activeSessionId) =>
                 LET before == FindId(chatSessions, c.activeSessionId).messages
                     after == FindId(chatSessions', c.activeSessionId).messages
                     pos == IndexOfId(before, c.thinkingMsgId)
                 IN  /\ ~SomeId(after, c.thinkingMsgId)
                     /\ after[pos].sender = "ai"
                     /\ ~IsPlaceholder(after[pos])
                     /\ after[pos].isError = Settles(c, "resolveFailure")

\* C11: every accepted send eventually settles, given that the provider call
\* returns or throws; however it settles, isSending is false again, the
\* placeholder has been replaced by a final AI message or by an isError AI
\* message, and the send affordance is enabled for the next send.
C11_SendSettles == C11_Settles /\ [][C11_SettledState]_vars

\* a send that failed has settled and the next send has been accepted
C11_Witness ==
    /\ last.op = "send"
    /\ isSending
    /\ \E i \in 1..Len(chatSessions) :
         \E j \in 1..Len(chatSessions[i].messages) :
            chatSessions[i].messages[j].isError

\* ---------------------------------------------------------------- C12
Recognized(modelId) ==
    StartsWith(modelId, GOOGLE_PREFIX) \/ StartsWith(modelId, OPENROUTER_PREFIX)

\* C12: for a model id that starts with neither googleai/ nor openrouter/,
\* smartAssistantPrompting fails with the unsupported-provider error and
\* calls neither the aggregator endpoint nor the first-party SDK; for a
\* recognized prefix only the backend of that prefix is called, at most once.
C12_Routing ==
    last.op = "smartAssistantPrompting" =>
        LET modelId == pendingSends[1].selectedModel.id
            result == last.arg
        IN  /\ ~Recognized(modelId) =>
                /\ ~result.ok
                /\ result.text = UNSUPPORTED_PROVIDER
                /\ result.calls = <<>>
            /\ StartsWith(modelId, GOOGLE_PREFIX) =>
                result.calls \in { <<>>, <<"googleai">> }
            /\ StartsWith(modelId, OPENROUTER_PREFIX) =>
                result.calls \in { <<>>, <<"openrouter">> }
            /\ Recognized(modelId) => (result.ok => result.calls # <<>>)

\* an id that contains a provider name, but not as its prefix, was refused
C12_Witness ==
    /\ last.op = "smartAssistantPrompting"
    /\ pendingSends[1].selectedModel.id = <<"x-", "openrouter/", "openai/", "gpt-4", "o">>
    /\ last.arg.text = UNSUPPORTED_PROVIDER
    /\ last.arg.calls = <<>>

\* ---------------------------------------------------------------- C13
ToAggregator(model) ==
    model.provider = "openrouter" \/ StartsWith(model.id, OPENROUTER_PREFIX)

\* no accepted send carries a file to the aggregator, whatever the backend
\* answers
C13_NoFileIssued ==
    \A k \in 1..Len(pendingSends) : LET c == pendingSends[k] IN
        /\ ~(c.hasFile /\ ToAggregator(c.selectedModel))
        /\ \A b \in BackendOutcomes :
            Outcome(c, b).calls = <<"openrouter">> => ~c.hasFile

\* the router refuses the request that the current selection would make with
\* a file, with or without a key, without calling a backend
C13_RouterRefuses ==
    StartsWith(selectedModel.id, OPENROUTER_PREFIX) =>
        \A key \in ApiKeys, b \in BackendOutcomes :
            smartAssistantPrompting(selectedModel.id, TRUE, key, b)
                = [ok |-> FALSE, text |-> FILE_NOT_SUPPORTED, calls |-> <<>>]

C13_SendRejected ==
    (/\ last'.op \in {"send", "sendRejected"}
     /\ selectedFile
     /\ ToAggregator(selectedModel)) =>
        /\ last'.op = "sendRejected"
        /\ chatSessions' = chatSessions
        /\ localStorage' = localStorage
        /\ pendingSends' = pendingSends
        /\ isSending' = isSending

\* C13: no request with a file is ever issued to the aggregator: whatever the
\* order of attaching a file, selecting a model and sending, a send with a
\* file while an aggregator model is selected is rejected without modifying
\* any session, and the router refuses a file on the aggregator path before
\* any HTTP call and before it looks for the API key.
C13_NoFileToAggregator ==
    /\ [](C13_NoFileIssued /\ C13_RouterRefuses)
    /\ [][C13_SendRejected]_vars

\* a file was attached under a first-party model, an aggregator model was
\* selected afterwards, and the send was rejected
C13_Witness ==
    /\ last.op = "sendRejected"
    /\ selectedFile
    /\ selectedModel.provider = "openrouter"
    /\ Trim(input) # <<>>

\* ---------------------------------------------------------------- C14
MessageContent(m) == [id |-> m.id, sender |-> m.sender, text |-> m.text]

SessionContent(session) ==
    [ id |-> session.id,
      name |-> session.name,
      messages |-> [ k \in 1..Len(session.messages) |-> MessageContent(session.messages[k]) ],
      totalCost |-> session.totalCost,
      tags |-> session.tags,
      isBookmarked |-> session.isBookmarked,
      folderId |-> session.folderId ]

CollectionContent(sessions) ==
    [ i \in 1..Len(sessions) |-> SessionContent(sessions[i]) ]

LastRows(sessions, n) == SubSeq(sessions, Len(sessions) - n + 1, Len(sessions))

\* saving the collection in memory and loading it back gives its content
C14_SaveThenLoad ==
    mounted =>
        CollectionContent(
            loadSessions(saveSessions(Cur, chatSessions).localStorage.chat_sessions, now))
          = CollectionContent(chatSessions)

\* the mount effects put the persisted collection, with its content and in
\* its order, into memory (below the session they create)
C14_LoadedAtBoot ==
    last'.op = "boot" =>
        /\ Len(chatSessions') >= Len(localStorage.chat_sessions)
        /\ CollectionContent(LastRows(chatSessions', Len(localStorage.chat_sessions)))
             = CollectionContent(localStorage.chat_sessions)

SessionMutatingOps ==
    { "createSession", "deleteSession", "renameSession", "toggleBookmark", "saveTags",
      "moveToFolder", "send", "resolveSuccess", "resolveFailure" }

C15_PersistedAfter ==
    last'.op \in SessionMutatingOps => localStorage'.chat_sessions = chatSessions'

\* C15: after every operation that mutates the session collection (create,
\* delete, rename, toggle bookmark, save tags, move to folder, append a user
\* turn, resolve a turn) the persisted collection equals the collection in
\* memory, the write to storage succeeding.
C15_WriteThrough == [][C15_PersistedAfter]_vars

\* a session with a turn was renamed
C15_Witness ==
    /\ last.op = "renameSession"
    /\ \E i \in 1..Len(chatSessions) :
        /\ chatSessions[i].name = <<"a">>
        /\ Len(chatSessions[i].messages) = 2
    /\ localStorage.chat_sessions = chatSessions

\* ---------------------------------------------------------------- C16
C16_BootCreation ==
    last'.op = "boot" =>
        LET persisted == localStorage.chat_sessions
            storedActiveId == localStorage.active_chat_session_id
        IN  IF Len(persisted) = 0
            THEN Len(chatSessions') = 1
            ELSE /\ CollectionContent(chatSessions') = CollectionContent(persisted)
                 /\ activeSessionId' =
                        IF storedActiveId # null /\ SomeId(persisted, storedActiveId)
                        THEN storedActiveId
                        ELSE persisted[1].id

\* C16: at boot a session is created only when no session is persisted, and
\* then exactly one; when sessions are persisted, boot creates none, the
\* collection is the persisted one, and the active session is the persisted
\* active id if it names a persisted session, else the first persisted session.
C16_BootCreatesOnlyWhenEmpty == [][C16_BootCreation]_vars

\* ---------------------------------------------------------------- C17
NoDuplicates(seq) == \A i, j \in 1..Len(seq) : seq[i] = seq[j] => i = j

C17_AfterFetch ==
    last'.op = "fetchSuccess" =>
        LET returned == last'.arg.models
            kept == Range(selectedOpenRouterModelIds) \cap Range(returned)
        IN  /\ allOpenRouterModels' = returned
            /\ Range(selectedOpenRouterModelIds') \subseteq kept
            /\ NoDuplicates(selectedOpenRouterModelIds')
            /\ Len(selectedOpenRouterModelIds')
                 = Min(Cardinality(kept), MAX_SELECTABLE_OPENROUTER_MODELS)

\* C17: after a successful catalog fetch the catalog is the returned list, and
\* the selection is the previously selected ids that are in the new catalog,
\* none added, trimmed to the cap.
C17_FetchReconciles == [][C17_AfterFetch]_vars

\* the refresh returned a catalog without the model that was in use: it left
\* the selection, and the dropdown fell back
C17_Witness ==
    /\ last.op = "fetchSuccess"
    /\ last.arg.models = StaleCatalog
    /\ last.prev.selectedModel = OPENROUTER_PREFIX \o GPT4O
    /\ selectedOpenRouterModelIds = << MISTRAL >>
    /\ allOpenRouterModels = StaleCatalog

\* ---------------------------------------------------------------- C18
FetchFailedStep == last'.op = "fetchFailure"

FetchWithoutKeyStep == last'.op = "fetchModels" /\ last'.arg = ""

C18_AfterFailure ==
    (FetchFailedStep \/ FetchWithoutKeyStep) =>
        /\ allOpenRouterModels' = <<>>
        /\ activeModels' = DEFAULT_GOOGLE_MODELS
        /\ fetchModelsError' # <<>>
        /\ FetchFailedStep => fetchModelsError' # FETCH_ERROR_NO_KEY
        /\ FetchWithoutKeyStep => fetchModelsError' = FETCH_ERROR_NO_KEY

\* C18: when a catalog fetch fails or is attempted with an empty API key, the
\* catalog becomes empty, the active-model list becomes exactly the default
\* model list and the fetch error is set; the error of a failed fetch differs
\* from the error of a missing key.
C18_FetchFailure == [][C18_AfterFailure]_vars

\* a fetch failed with the server's message being the text of the missing-key
\* error, while a catalog was loaded and models were selected
C18_Witness ==
    /\ last.op = "fetchFailure"
    /\ fetchModelsError = FETCH_ERROR_FAILED(FETCH_ERROR_NO_KEY)
    /\ selectedOpenRouterModelIds # <<>>
    /\ allOpenRouterModels = <<>>
    /\ activeModels = DEFAULT_GOOGLE_MODELS
    /\ last.prev.selectedModel = OPENROUTER_PREFIX \o GPT4O

\* ---------------------------------------------------------------- C19
\* the steps of fetchOpenRouterModels: up to its await, and after it
FetchStep == last'.op \in { "fetchModels", "refreshModels", "fetchSuccess", "fetchFailure" }

C19_StorageUntouched == FetchStep => localStorage' = localStorage

\* As stated: fetching the catalog leaves persistent storage unchanged, on
\* success and on failure alike.
C19_AsStated == [][C19_StorageUntouched]_vars

C19_StorageAfterFetch ==
    FetchStep =>
        /\ localStorage'.chat_sessions = localStorage.chat_sessions
        /\ localStorage'.active_chat_session_id = localStorage.active_chat_session_id
        /\ localStorage'.openrouter_api_key = localStorage.openrouter_api_key
        /\ last'.op # "fetchSuccess" => localStorage' = localStorage
        /\ last'.op = "fetchSuccess" =>
            localStorage'.selected_openrouter_models = selectedOpenRouterModelIds'

\* C19: fetching the catalog leaves persistent storage unchanged when it is
\* started and when it fails; on success it writes one key, the persisted
\* selected-model-id list, which becomes the reconciled selection, and leaves
\* every other persisted key as it was.
C19_FetchWritesSelectionOnly == [][C19_StorageAfterFetch]_vars

\* a refresh whose catalog lacks a selected model has stored the selection
\* without it
C19_Witness ==
    /\ last.op = "fetchSuccess"
    /\ last.arg.models = StaleCatalog
    /\ last.prev.selectedModel = OPENROUTER_PREFIX \o GPT4O
    /\ localStorage.selected_openrouter_models = << MISTRAL >>
    /\ localStorage.openrouter_api_key = "sk-or-1"

\* ---------------------------------------------------------------- C20
SwitchesTo(id) == last'.op = "switchActive" /\ last'.arg = id

C20_SameId ==
    \A id \in 1..MaxSessionIds :
        (SwitchesTo(id) /\ id = activeSessionId) =>
            /\ activeSessionId' = activeSessionId
            /\ chatSessions' = chatSessions
            /\ input' = input
            /\ selectedFile' = selectedFile
            /\ localStorage' = localStorage

C20_UnknownId ==
    \A id \in 1..MaxSessionIds :
        (SwitchesTo(id) /\ id # activeSessionId /\ ~SomeId(chatSessions, id)) =>
            \/ /\ activeSessionId' = activeSessionId
               /\ chatSessions' = chatSessions
               /\ input' = input
               /\ selectedFile' = selectedFile
            \/ /\ ~SomeId(chatSessions, localStorage.active_chat_session_id)
               /\ ~SomeId(chatSessions, activeSessionId')
               /\ Len(chatSessions') = Len(chatSessions) + 1
               /\ chatSessions'[1].id = activeSessionId'

\* C20: switching to the session that is already active changes nothing
\* (active pointer, sessions, draft input, attached file); switching to an id
\* that is not in the collection never makes an existing session active in
\* its place: the pointer stays as it was, or a new session is created when
\* the current pointer is itself invalid.
C20_SwitchEdgeCases == [][C20_SameId /\ C20_UnknownId]_vars

\* the id of a deleted session was switched to while a draft and a file were
\* pending: they are still there and the pointer names a session
C20_Witness ==
    /\ last.op = "switchActive"
    /\ last.arg # activeSessionId
    /\ ~SomeId(chatSessions, last.arg)
    /\ SomeId(chatSessions, activeSessionId)
    /\ last.prev.activeSessionId = activeSessionId
    /\ input # <<>>
    /\ selectedFile

\* ---------------------------------------------------------------- C21
C21_AfterCreate ==
    last'.op = "createSession" =>
        /\ Len(chatSessions') = Len(chatSessions) + 1
        /\ \E i \in 1..Len(chatSessions') : LET new == chatSessions'[i] IN
            /\ new.id \notin Ids(chatSessions)
            /\ new.id \notin Ids(localStorage.chat_sessions)
            /\ new.messages = <<>>
            /\ new.name = DEFAULT_SESSION_NAME
            /\ new.totalCost = 0
            /\ activeSessionId' = new.id
            /\ RemoveId(chatSessions', new.id) = chatSessions

\* C21: createSession adds exactly one session with a fresh id, an empty
\* message list, the default name and totalCost 0, makes it the active
\* session, and leaves every session that existed before unchanged (id, name,
\* messages, cost, tags, bookmark, folder).
C21_CreateSession == [][C21_AfterCreate]_vars

\* a session was created next to a renamed, bookmarked, tagged session with a
\* turn
C21_Witness ==
    /\ last.op = "createSession"
    /\ Len(chatSessions) = 3
    /\ chatSessions[1].id = activeSessionId
    /\ \E i \in 2..Len(chatSessions) :
        /\ chatSessions[i].name = <<"a">>
        /\ chatSessions[i].isBookmarked
        /\ chatSessions[i].tags = <<"t">>
        /\ Len(chatSessions[i].messages) = 2

\* ---------------------------------------------------------------- C22
\* the state in memory: everything but the content of storage
InMemory(s) == [s EXCEPT !.localStorage = EmptyStorage]

C22_SameAsSuccess ==
    /\ last'.op = "createSessionStorageThrows" =>
        InMemory(Cur') = InMemory(Effects(createNewSession(Cur)))
    /\ last'.op = "switchActiveStorageThrows" =>
        InMemory(Cur') = InMemory(Effects(switchSession(Cur, last'.arg)))
    /\ (last'.op = "deleteSessionStorageThrows" /\ last'.arg = activeSessionId) =>
        InMemory(Cur') = InMemory(Effects(deleteSession(Cur, last'.arg)))
    /\ last'.op = "renameSessionStorageThrows" =>
        InMemory(Cur') =
            InMemory(Effects(saveEditedSessionName(Cur, last'.arg.id, last'.arg.name)))

\* C22: a failing storage write never prevents the mutation in memory: for
\* create, switch, delete of the active session and rename, when the write to
\* storage throws, the state in memory ends as it would have ended had the
\* write succeeded.
C22_WritesAreBestEffort == [][C22_SameAsSuccess]_vars

\* ---------------------------------------------------------------- C23
\* the flat charge for an attached file
FileSurcharge(modelId, hasFile) ==
    IF ~hasFile THEN 0
    ELSE IF StartsWith(modelId, GOOGLE_PREFIX) THEN COST_PER_FILE_ANALYSIS_GOOGLE
    ELSE IF StartsWith(modelId, OPENROUTER_PREFIX) THEN COST_PER_FILE_OPENROUTER
    ELSE 0

\* the rates of a model: the cost of one character with no file
InputRate(modelId) == calculateCost(modelId, 1, 0, FALSE)

OutputRate(modelId) == calculateCost(modelId, 0, 1, FALSE)

C23_Formula ==
    last.op = "calculateCost" =>
        LET c == pendingSends[1]
            modelId == c.selectedModel.id
            inLen == Len(c.userMessageText)
            outLen == last.arg.outputLength
            cost == last.arg.cost
        IN  /\ cost = inLen * InputRate(modelId) + outLen * OutputRate(modelId)
                        + FileSurcharge(modelId, c.hasFile)
            /\ cost >= 0
            /\ calculateCost(modelId, inLen + 1, outLen, c.hasFile) >= cost
            /\ calculateCost(modelId, inLen, outLen + 1, c.hasFile) >= cost
            /\ (inLen = 0 /\ outLen = 0) => cost = FileSurcharge(modelId, c.hasFile)
            /\ (inLen = 0 /\ outLen = 0 /\ ~c.hasFile) => cost = 0

C23_TwoTiers ==
    LET aggregator == calculateCost(OPENROUTER_PREFIX \o MISTRAL, 100, 200, FALSE)
        flash == calculateCost(GEMINI_FLASH_ID, 100, 200, FALSE)
    IN  aggregator > 0 /\ flash > 0 /\ aggregator # flash

\* C23: calculateCost(modelId, inputLen, outputLen, hasFile) equals inputLen x
\* input rate + outputLen x output rate + file surcharge, is never negative,
\* does not decrease when inputLen or outputLen grows, and at lengths 0 and 0
\* is the file surcharge alone (0 without a file); an aggregator model with
\* no tier keyword and the first-party flash default, both at (100, 200, no
\* file), give two different positive values.
C23_Cost == C23_Formula /\ C23_TwoTiers

\* the aggregator model without tier keyword was costed at (100, 200, no file)
C23_Witness ==
    /\ last.op = "calculateCost"
    /\ pendingSends[1].selectedModel.id = OPENROUTER_PREFIX \o MISTRAL
    /\ Len(pendingSends[1].userMessageText) = 100
    /\ last.arg.outputLength = 200
    /\ ~pendingSends[1].hasFile
    /\ last.arg.cost = 1400

\* ---------------------------------------------------------------- C24
IsPrefix(a, b) == Len(a) <= Len(b) /\ SubSeq(b, 1, Len(a)) = a

Placeholders(sessions) ==
    { <<i, k>> \in (1..Len(sessions)) \X (1..MaxMessageIds) :
        k <= Len(sessions[i].messages) /\ IsPlaceholder(sessions[i].messages[k]) }

C24_Pairs ==
    \A i \in 1..Len(SessionsView) : LET ms == SessionsView[i].messages IN
        /\ Len(ms) % 2 = 0
        /\ \A k \in 1..Len(ms) : ms[k].sender = IF k % 2 = 1 THEN "user" ELSE "ai"

C24_OnePlaceholder ==
    /\ Cardinality(Placeholders(SessionsView)) <= 1
    /\ \A p \in Placeholders(SessionsView) : p[2] = Len(SessionsView[p[1]].messages)

C24_AppendOnly ==
    \A i \in 1..Len(SessionsView) : LET before == SessionsView[i] IN
        SomeId(SessionsView', before.id) =>
            LET after == FindId(SessionsView', before.id).messages
                resolved == SelectSeq(before.messages, LAMBDA m : ~IsPlaceholder(m))
                kept == SelectSeq(after, LAMBDA m : ~IsPlaceholder(m) \/
                            \A k \in 1..Len(before.messages) : before.messages[k] # m)
            IN  IsPrefix(before.messages, after) \/ IsPrefix(resolved, kept)

\* C24: in every reachable state every session's message list is a sequence
\* of pairs (user message, AI message), senders alternating from user; at
\* most one message of the whole store is an unresolved placeholder and it is
\* the last message of its session; and no operation other than the
\* replacement of the placeholder removes or reorders an existing message.
C24_MessagePairs == [](C24_Pairs /\ C24_OnePlaceholder) /\ [][C24_AppendOnly]_vars

\* ---------------------------------------------------------------- C25
\* what the step that settles the send c leaves in the store
C25_AppliedToOrigin(c) ==
    /\ Len(chatSessions') = Len(chatSessions)
    /\ \A i \in 1..Len(chatSessions) :
          /\ chatSessions'[i].id = chatSessions[i].id
          /\ chatSessions[i].id # c.activeSessionId =>
                /\ chatSessions'[i].messages = chatSessions[i].messages
                /\ chatSessions'[i].totalCost = chatSessions[i].totalCost
          /\ chatSessions[i].id = c.activeSessionId =>
                LET after == chatSessions'[i].messages
                    final == after[Len(after)]
                IN  /\ after # <<>>
                    /\ final.id = nextMessageId
                    /\ final.sender = "ai"
                    /\ ~IsPlaceholder(final)
                    /\ final.isError = (last'.op = "resolveFailure")
                    /\ \A k \in 1..Len(after) : after[k].id # c.thinkingMsgId

\* C25: the outcome of a send is applied to the session the send was issued
\* from and to no other. Whatever the user did while the call was
\* outstanding (switched the active session, created a session, deleted the
\* originating one), the step that settles the send leaves the messages and
\* the total cost of every other session unchanged, leaves the set of
\* sessions unchanged (a deleted session is not re-created), and gives the
\* originating session, when it still exists, the final or the error message
\* in place of the placeholder.
C25_OutcomeToOrigin ==
    [][ \A i \in 1..Len(pendingSends) :
          (Settles(pendingSends[i], "resolveSuccess") \/ Settles(pendingSends[i], "resolveFailure"))
              => C25_AppliedToOrigin(pendingSends[i]) ]_vars

\* a send has just settled into a session that is no longer the active one
C25_Witness ==
    /\ last.op \in {"resolveSuccess", "resolveFailure"}
    /\ \E i \in 1..Len(chatSessions) : LET ms == chatSessions[i].messages IN
          /\ chatSessions[i].id # activeSessionId
          /\ ms # <<>>
          /\ ms[Len(ms)].id = nextMessageId - 1
          /\ ms[Len(ms)].sender = "ai"
          /\ ~IsPlaceholder(ms[Len(ms)])

\* a send has just settled after its session was deleted
C25_WitnessDeleted ==
    /\ last.op \in {"resolveSuccess", "resolveFailure"}
    /\ \A i \in 1..Len(chatSessions) :
          \A k \in 1..Len(chatSessions[i].messages) :
              chatSessions[i].messages[k].id # nextMessageId - 1

\* ---------------------------------------------------------------- C26
\* C26: whenever the page is up and no send is outstanding, no session holds
\* a placeholder message, neither in memory nor in the persisted collection;
\* this includes the state loaded at boot from a collection that was
\* persisted while a send was outstanding.
C26_NoStrayPlaceholder ==
    (mounted /\ pendingSends = <<>>) =>
        /\ Placeholders(chatSessions) = {}
        /\ Placeholders(loadSessions(localStorage.chat_sessions, now)) = {}

\* ---------------------------------------------------------------- C27
\* the placeholder of the outstanding send c is still in the store
C27_Unresolved(c) ==
    \E i \in 1..Len(chatSessions) : \E k \in 1..Len(chatSessions[i].messages) :
        chatSessions[i].messages[k].id = c.thinkingMsgId

\* C27: while a turn is unresolved the thinking-message marker equals the id
\* of its placeholder, whatever switches of the active session and session
\* creations were interleaved with the outstanding send; so the placeholder
\* is not listed among the completed AI responses of the usage analysis (and
\* the message list, which tests the same marker, does not render it as a
\* normal AI message).
C27_MarkerTracksPlaceholder ==
    mounted =>
        \A i \in 1..Len(pendingSends) : LET c == pendingSends[i] IN
            C27_Unresolved(c) =>
                /\ thinkingMessageId = c.thinkingMsgId
                /\ \A k \in 1..Len(allAiMessages(chatSessions, thinkingMessageId)) :
                      allAiMessages(chatSessions, thinkingMessageId)[k].id # c.thinkingMsgId

\* ---------------------------------------------------------------- C28
\* the name the claim derives from a text
C28_DerivedName(text) ==
    IF Len(text) <= SESSION_NAME_TRUNCATE_LENGTH THEN text
    ELSE SubSeq(text, 1, SESSION_NAME_TRUNCATE_LENGTH) \o <<".", ".", ".">>

C28_AfterSend ==
    (last'.op = "send" /\ SomeId(chatSessions, activeSessionId)) =>
        LET before == FindId(chatSessions, activeSessionId)
            after == FindId(chatSessions', activeSessionId)
        IN  after.name = IF before.messages = <<>> THEN C28_DerivedName(input)
                         ELSE before.name

\* C28: on the first turn of a session its name becomes the name derived
\* from the user text: the text itself when it has at most
\* SESSION_NAME_TRUNCATE_LENGTH characters, its first
\* SESSION_NAME_TRUNCATE_LENGTH characters followed by "..." when it is
\* longer; on later turns sending does not change the name.
C28_NameFromFirstTurn == [][C28_AfterSend]_vars

\* ---------------------------------------------------------------- C29
C29_FlagWhileOutstanding == (mounted /\ pendingFetches # {}) => isFetchingModels

\* the step settles the last outstanding fetch, f, and no call without a key
\* has reset the catalog state in the meantime
C29_SettlesLast(f) ==
    /\ last'.op \in {"fetchSuccess", "fetchFailure"}
    /\ fetchModelsError # FETCH_ERROR_NO_KEY
    /\ pendingFetches = {f}
    /\ pendingFetches' = {}

\* the catalog state is the outcome of the fetch f
C29_OutcomeOf(f) ==
    IF last'.op = "fetchSuccess"
    THEN /\ allOpenRouterModels' = last'.arg.models
         /\ activeModels' = calculateActiveModels(selectedOpenRouterModelIds', last'.arg.models)
         /\ fetchModelsError' = <<>>
    ELSE /\ allOpenRouterModels' = <<>>
         /\ activeModels' = DEFAULT_GOOGLE_MODELS
         /\ \E message \in FetchErrorMessages : fetchModelsError' = FETCH_ERROR_FAILED(message)

C29_LastIssuedWins ==
    \A f \in pendingFetches :
        C29_SettlesLast(f) =>
            IF f.id = nextFetchId - 1
            THEN C29_OutcomeOf(f)
            ELSE UNCHANGED << allOpenRouterModels, activeModels, fetchModelsError >>

\* C29: when catalog fetches overlap, the fetching flag is up for as long as
\* any of them is outstanding, and once all have settled the catalog, the
\* active-model list and the fetch error are those of the fetch issued last:
\* when it settles last they are its outcome, and an older fetch settling
\* after it changes none of them.
C29_OverlappingFetches == []C29_FlagWhileOutstanding /\ [][C29_LastIssuedWins]_vars

\* ---------------------------------------------------------------- C30
\* every message of every session, in memory or as persisted
C30_Messages ==
    UNION { { SessionsView[i].messages[k] : k \in 1..Len(SessionsView[i].messages) } :
            i \in 1..Len(SessionsView) }

\* The claim as stated: a message carries a cost field exactly when it is a
\* successfully completed AI message.
C30_AsStated ==
    \A m \in C30_Messages :
        m.hasCost <=> (m.sender = "ai" /\ ~IsPlaceholder(m) /\ ~m.isError)

\* C30: a message carries a cost field exactly when it is the final AI
\* message of a turn, successful or failed: user messages and placeholders
\* have none, a successful message carries the estimate, and an isError
\* message carries a cost of 0.
C30_CostField ==
    \A m \in C30_Messages :
        /\ m.hasCost <=> (m.sender = "ai" /\ ~IsPlaceholder(m))
        /\ m.isError => m.cost = 0

\* a failed turn has just left its error message, and a successful one is in
\* the store
C30_Witness ==
    /\ last.op = "resolveFailure"
    /\ \E m \in C30_Messages : m.isError /\ m.hasCost /\ m.cost = 0
    /\ \E m \in C30_Messages : m.sender = "ai" /\ ~m.isError /\ m.hasCost
    /\ \E m \in C30_Messages : m.sender = "user" /\ ~m.hasCost

====
